---------------------------- MODULE Spec2Model ----------------------------
(***************************************************************************)
(* Verification model of the analytics dashboard (panchaniakash/           *)
(* dashobard-hook): the TTL caches, the debounce utility, the cascading    *)
(* filter hooks of the client and the filter route handlers of the server. *)
(*                                                                         *)
(* Time is counted in abstract ticks of Date.now(); a TTL or a debounce    *)
(* wait is a number of ticks.                                              *)
(***************************************************************************)
EXTENDS Integers, Sequences, FiniteSets, TLC

(***************************************************************************)
(* Bounds of the model.                                                    *)
(***************************************************************************)
\* Date.now() runs from 0 to MaxTime.
MaxTime == 2
\* FrontendCache: at most MaxSets calls of set() (each leaves a timer behind).
MaxSets == 2
\* FrontendCache: hits + misses is counted up to MaxCount.
MaxCount == 2
\* debounce: the clock of the debounce model runs from 0 to DebMaxTime.
DebMaxTime == 4
\* debounce: the wait argument, in ticks (300 ms in the hooks).
DebWait == 2
\* debounce: at most MaxCalls calls of the debounced function.
MaxCalls == 3
\* filter hooks: the clock of the hook model runs from 0 to HookMaxTime.
HookMaxTime == 2
\* filter hooks: at most MaxUpdates filter changes by the user.
MaxUpdates == 3
\* filter hooks: at most MaxInFlight fetches awaiting their response.
MaxInFlight == 4
\* The 300 ms of debounce(..., 300) in the hooks: one tick of the hook model.
FilterWait == 1
\* server: the clock of the server model runs from 0 to SrvMaxTime.
SrvMaxTime == 2
\* server: at most MaxReq requests arrive.
MaxReq == 3
\* cacheService: the capacity of the cache.
CSMaxSize == 1
\* client and server together: at most MaxRefresh manual refreshes.
MaxRefresh == 1
\* retryRequest: the maxRetries argument runs from 0 to MaxRetries.
MaxRetries == 2
\* DatabaseService: at most MaxPools connection pools are created.
MaxPools == 2
\* DatabaseService: at most MaxConn calls of getConnection().
MaxConn == 4
\* this.maxSize of CacheManager (1000 in the source), scaled down.
maxSize == 2

\* Keys and values handed to the cache classes.
Keys == {"a", "b", "c"}
\* FrontendCache is driven with two of them.
FCKeys == {"a", "b"}
\* ttl arguments of set(), in ticks.
TTLs == {1, 2}
Values == {"v1", "v2"}
\* JavaScript's null, the "absent" result of get().
NULL == "null"

VARIABLES
  now,        \* Date.now()
  impl,       \* which cache class is under test
  cm_cache,   \* CacheManager.cache: Map key -> value, in insertion order
  cm_ttl,     \* CacheManager.ttl: Map key -> expiry, in insertion order
  fc_cache,   \* FrontendCache.cache: Map key -> {data, timestamp, ttl}
  cm_fifo,    \* history: the keys of CacheManager.cache, oldest insertion first
  fc_timers,  \* pending setTimeout callbacks of FrontendCache.set, oldest first
  fc_hits,    \* FrontendCache.hits
  fc_misses,  \* FrontendCache.misses
  fc_sets,    \* history: number of FrontendCache.set calls so far
  lastOp,     \* observation of the last cache call (what its caller saw)
  cc_mem,     \* ClientCache.memoryCache: Map full key -> value
  cc_ttl,     \* ClientCache.ttl: Map full key -> expiry
  ls,         \* window.localStorage: [k, v] items in key(i) order, v a JSON text
  ls_mode,    \* localStorage: "ok", "full" (setItem throws), "denied" (all throw)
  db_variant,   \* which debounce: performance.jsx ("utils") or part_002 ("page")
  db_immediate, \* debounce's immediate argument
  db_timeout,   \* debounce's closure variable "timeout": a timer id, 0 for none
  db_timers,    \* timers set by setTimeout and not yet run or cleared
  db_calls,     \* history: the calls of the debounced function, [args, at]
  db_invoked,   \* history: the invocations of func, [args, at, ncalls]
  rt,           \* one call of RequestOptimizer.retryRequest: its arguments, its loop
                \* variable, where it stands, and the history of its attempts
  hook,       \* which component: useDashboardData (part_001) or the page of part_002
  filters,    \* the filters state (useState)
  hk_deb,     \* the closure state of each debounced function: [timeout, timers]
  hk_calls,   \* history: number of filter changes by the user so far
  data,       \* part_002: the data state, by key
  loading,    \* part_002: the keys of the loading state that are true
  inflight,   \* part_002: per API type, the arguments of the calls awaiting their
              \* response, in issue order
  issued,     \* history: per API type, the last call issued and how it ended
  rq,         \* part_001: the query keys react-query has been asked for
  applied,    \* history: the last filter change applied to the state
  cs_cache,   \* cacheService: the entries [k, v, expiry], oldest insertion first
  cs_hits,    \* cacheService: hit counter
  cs_misses,  \* cacheService: miss counter
  reqs,       \* the requests in progress (awaiting a query), in arrival order
  srv_done,   \* history: the request answered last
  srv_n,      \* history: number of requests received
  cs_last,    \* history: per cache key, the data of the last answer not from the cache
  srv_answers, \* history: the answers not from the cache, [ep, body, data, at]
  rf,         \* the client's manual refreshes: how many so far, and the requests
              \* they sent that have not arrived, [ep, body, before]
  sq,         \* the database and the last request answered from its tables:
              \* [db, ep, arg, status, rows]
  ds          \* DatabaseService: this.pool (0 for null), the state of every pool
              \* created, and the history of getConnection()

hookVars == <<hook, filters, hk_deb, hk_calls, data, loading, inflight, issued, rq,
              applied>>
srvVars == <<cs_cache, cs_hits, cs_misses, reqs, srv_done, srv_n, cs_last, srv_answers,
             rf, sq, ds>>
debVars == <<db_variant, db_immediate, db_timeout, db_timers, db_calls, db_invoked, rt>>
cmVars == <<cm_cache, cm_ttl, cm_fifo>>
fcVars == <<fc_cache, fc_timers, fc_hits, fc_misses, fc_sets>>
ccVars == <<cc_mem, cc_ttl, ls, ls_mode>>
cacheVars == <<impl, cm_cache, cm_ttl, cm_fifo, fc_cache, fc_timers, fc_hits,
               fc_misses, fc_sets, lastOp, ccVars>>

(***************************************************************************)
(* A JavaScript Map: a sequence of [k, v] entries in insertion order.      *)
(***************************************************************************)
MapKeys(m) == {m[i].k : i \in 1..Len(m)}

MapHas(m, key) == key \in MapKeys(m)

MapGet(m, key) == m[CHOOSE i \in 1..Len(m) : m[i].k = key].v

\* Map.prototype.set: an existing key keeps its position, a new one is appended.
MapSet(m, key, value) ==
  IF MapHas(m, key)
    THEN [i \in 1..Len(m) |-> IF m[i].k = key THEN [k |-> key, v |-> value] ELSE m[i]]
    ELSE Append(m, [k |-> key, v |-> value])

MapDelete(m, key) == SelectSeq(m, LAMBDA e : e.k # key)

\* The keys of m in iteration order.
MapKeySeq(m) == [i \in 1..Len(m) |-> m[i].k]

(***************************************************************************)
(* What the caller of a cache method observes: the method, its key, its    *)
(* result, whether the key was stored before the call and with which       *)
(* expiry (createdAt + ttl), the time of the call, the number of entries   *)
(* before the call and the keys the call removed; for CacheManager.set     *)
(* also the key whose insertion was the oldest before the call.            *)
(***************************************************************************)
Obs(op, key, result, had, expiry, at, before, after) ==
  [op |-> op, key |-> key, result |-> result, had |-> had, expiry |-> expiry,
   at |-> at, sizeBefore |-> Len(before),
   removed |-> {before[i] : i \in 1..Len(before)} \ {after[i] : i \in 1..Len(after)},
   oldest |-> NULL, hits |-> 0, misses |-> 0, threw |-> FALSE, value |-> NULL]

\* The values a caller stores: an object, and JavaScript's null.
CacheValues == {"v1", NULL}

NoOp == Obs("none", "a", NULL, FALSE, 0, 0, <<>>, <<>>)

(***************************************************************************)
(* CacheManager (src/server/services/database.ts 156-225).                 *)
(***************************************************************************)
Mut_CM_FirstKey(c) == c[Len(c)].k

\* set(): "const firstKey = this.cache.keys().next().value"
CM_FirstKey(c) == c[1].k

\* set(): "if (this.cache.size >= this.maxSize)"
CM_IsFull(c) == Len(c) >= maxSize

\* get(): "if (Date.now() > expiry)"
CM_Expired(t, expiry) == t > expiry

\* set(key, value, ttl) at time t: the two maps it leaves, and the keys its
\* eviction step deleted (Map.delete of an undefined firstKey deletes nothing).
CM_Set(c, tt, key, value, ttlArg, t) ==
  LET evict == CM_IsFull(c) /\ Len(c) > 0
      c1 == IF evict THEN MapDelete(c, CM_FirstKey(c)) ELSE c
      t1 == IF evict THEN MapDelete(tt, CM_FirstKey(c)) ELSE tt
  IN [cache |-> MapSet(c1, key, value),
      ttl |-> MapSet(t1, key, t + ttlArg),
      evicted |-> IF evict THEN {CM_FirstKey(c)} ELSE {}]

\* get(key) at time t: its result and the two maps it leaves.
CM_Get(c, tt, key, t) ==
  IF ~MapHas(c, key)
    THEN [result |-> NULL, cache |-> c, ttl |-> tt]
    ELSE IF CM_Expired(t, MapGet(tt, key))
      THEN [result |-> NULL, cache |-> MapDelete(c, key), ttl |-> MapDelete(tt, key)]
      ELSE [result |-> MapGet(c, key), cache |-> c, ttl |-> tt]

\* cleanup() at time t: every key of this.ttl with now > expiry leaves both maps.
CM_Cleanup(c, tt, t) ==
  LET dead == {tt[i].k : i \in {j \in 1..Len(tt) : t > tt[j].v}}
  IN [cache |-> SelectSeq(c, LAMBDA e : e.k \notin dead),
      ttl |-> SelectSeq(tt, LAMBDA e : e.k \notin dead)]

\* The insertion history after a call: keys that left the map are dropped, a key
\* that entered the map (it was not in it when Map.set ran) is the newest.
FifoAfter(fifo, gone, added) ==
  LET kept == SelectSeq(fifo, LAMBDA k : k \notin gone)
  IN IF added = {} THEN kept ELSE Append(kept, CHOOSE k \in added : TRUE)

\* "Math.round(x)": the integer nearest to num / den, halves rounded up.
Round(num, den) == (2 * num + den) \div (2 * den)

\* getStats(): "{ size, maxSize, usage: Math.round((size / maxSize) * 100) }"
CM_GetStats(c) ==
  [size |-> Len(c), maxSize |-> maxSize, usage |-> Round(100 * Len(c), maxSize)]

CMExpiryOf(key) == IF MapHas(cm_ttl, key) THEN MapGet(cm_ttl, key) ELSE 0

CMSet(key, value, ttlArg) ==
  /\ impl = "CacheManager"
  /\ LET r == CM_Set(cm_cache, cm_ttl, key, value, ttlArg, now)
         stay == MapKeys(cm_cache) \ r.evicted
     IN /\ cm_cache' = r.cache
        /\ cm_ttl' = r.ttl
        /\ cm_fifo' = FifoAfter(cm_fifo, r.evicted, {key} \ stay)
        /\ lastOp' = [Obs("set", key, NULL, MapHas(cm_cache, key), now + ttlArg, now,
                          MapKeySeq(cm_cache), MapKeySeq(r.cache))
                        EXCEPT !.oldest = IF cm_fifo = <<>> THEN NULL ELSE Head(cm_fifo)]
  /\ UNCHANGED <<now, impl, fcVars, ccVars, debVars, srvVars, hookVars>>

CMGet(key) ==
  /\ impl = "CacheManager"
  /\ LET r == CM_Get(cm_cache, cm_ttl, key, now)
     IN /\ cm_cache' = r.cache
        /\ cm_ttl' = r.ttl
        /\ cm_fifo' = FifoAfter(cm_fifo, MapKeys(cm_cache) \ MapKeys(r.cache), {})
        /\ lastOp' = Obs("get", key, r.result, MapHas(cm_cache, key), CMExpiryOf(key),
                         now, MapKeySeq(cm_cache), MapKeySeq(r.cache))
  /\ UNCHANGED <<now, impl, fcVars, ccVars, debVars, srvVars, hookVars>>

\* has(key): "return this.get(key) !== null"
CMHas(key) ==
  /\ impl = "CacheManager"
  /\ LET r == CM_Get(cm_cache, cm_ttl, key, now)
     IN /\ cm_cache' = r.cache
        /\ cm_ttl' = r.ttl
        /\ cm_fifo' = FifoAfter(cm_fifo, MapKeys(cm_cache) \ MapKeys(r.cache), {})
        /\ lastOp' = Obs("has", key, IF r.result # NULL THEN "true" ELSE "false",
                         MapHas(cm_cache, key), CMExpiryOf(key), now,
                         MapKeySeq(cm_cache), MapKeySeq(r.cache))
  /\ UNCHANGED <<now, impl, fcVars, ccVars, debVars, srvVars, hookVars>>

CMDelete(key) ==
  /\ impl = "CacheManager"
  /\ cm_cache' = MapDelete(cm_cache, key)
  /\ cm_ttl' = MapDelete(cm_ttl, key)
  /\ cm_fifo' = FifoAfter(cm_fifo, {key}, {})
  /\ lastOp' = Obs("delete", key, NULL, MapHas(cm_cache, key), CMExpiryOf(key), now,
                   MapKeySeq(cm_cache), MapKeySeq(MapDelete(cm_cache, key)))
  /\ UNCHANGED <<now, impl, fcVars, ccVars, debVars, srvVars, hookVars>>

CMClear ==
  /\ impl = "CacheManager"
  /\ cm_cache' = <<>>
  /\ cm_ttl' = <<>>
  /\ cm_fifo' = <<>>
  /\ lastOp' = Obs("clear", "a", NULL, FALSE, 0, now, MapKeySeq(cm_cache), <<>>)
  /\ UNCHANGED <<now, impl, fcVars, ccVars, debVars, srvVars, hookVars>>

\* The callback of "setInterval(() => this.cleanup(), 60000)".
CMCleanup ==
  /\ impl = "CacheManager"
  /\ LET r == CM_Cleanup(cm_cache, cm_ttl, now)
     IN /\ cm_cache' = r.cache
        /\ cm_ttl' = r.ttl
        /\ cm_fifo' = FifoAfter(cm_fifo, MapKeys(cm_cache) \ MapKeys(r.cache), {})
        /\ lastOp' = Obs("cleanup", "a", NULL, FALSE, 0, now,
                         MapKeySeq(cm_cache), MapKeySeq(r.cache))
  /\ UNCHANGED <<now, impl, fcVars, ccVars, debVars, srvVars, hookVars>>

(***************************************************************************)
(* FrontendCache (src/client/src/lib/cache.ts 7-70).                       *)
(***************************************************************************)
\* get()/has(): "if (now - item.timestamp > item.ttl)"
FC_Expired(t, item) == t - item.timestamp > item.ttl

FC_Item(item, t, ttlArg) == [data |-> item, timestamp |-> t, ttl |-> ttlArg]

\* set(): the map it leaves and the timer it schedules.
FC_Set(c, timers, key, item, ttlArg, t) ==
  [cache |-> MapSet(c, key, FC_Item(item, t, ttlArg)),
   timers |-> Append(timers, [key |-> key, due |-> t + ttlArg])]

Mut_FC_Get(c, key, t) ==
  IF ~MapHas(c, key)
    THEN [result |-> NULL, cache |-> c, hit |-> FALSE]
    ELSE IF FC_Expired(t, MapGet(c, key))
      THEN [result |-> NULL, cache |-> MapDelete(c, key), hit |-> TRUE]
      ELSE [result |-> MapGet(c, key).data, cache |-> c, hit |-> TRUE]

\* get(key) at time t: result, map, and the counter it increments.
FC_Get(c, key, t) ==
  IF ~MapHas(c, key)
    THEN [result |-> NULL, cache |-> c, hit |-> FALSE]
    ELSE IF FC_Expired(t, MapGet(c, key))
      THEN [result |-> NULL, cache |-> MapDelete(c, key), hit |-> FALSE]
      ELSE [result |-> MapGet(c, key).data, cache |-> c, hit |-> TRUE]

\* getStats(): "hitRate: hits + misses > 0 ? (hits / (hits + misses)) * 100 : 0",
\* the quotient kept as the fraction num / den.
FC_HitRate(hits, misses) ==
  IF hits + misses > 0
    THEN [num |-> hits * 100, den |-> hits + misses]
    ELSE [num |-> 0, den |-> 1]

FC_GetStats(c, hits, misses) ==
  [size |-> Len(c), hits |-> hits, misses |-> misses,
   hitRate |-> FC_HitRate(hits, misses)]

\* A FrontendCache call, with the counters it found.
FCObs(o) == [o EXCEPT !.hits = fc_hits, !.misses = fc_misses]

FCExpiryOf(key) ==
  IF MapHas(fc_cache, key)
    THEN MapGet(fc_cache, key).timestamp + MapGet(fc_cache, key).ttl
    ELSE 0

FCSet(key, item, ttlArg) ==
  /\ impl = "FrontendCache"
  /\ fc_sets < MaxSets
  /\ LET r == FC_Set(fc_cache, fc_timers, key, item, ttlArg, now)
     IN /\ fc_cache' = r.cache
        /\ fc_timers' = r.timers
        /\ lastOp' = FCObs(Obs("set", key, NULL, MapHas(fc_cache, key), now + ttlArg, now,
                               MapKeySeq(fc_cache), MapKeySeq(r.cache)))
  /\ fc_sets' = fc_sets + 1
  /\ UNCHANGED <<now, impl, debVars, srvVars, hookVars, cmVars, ccVars, fc_hits, fc_misses>>

FCGet(key) ==
  /\ impl = "FrontendCache"
  /\ fc_hits + fc_misses < MaxCount
  /\ LET r == FC_Get(fc_cache, key, now)
     IN /\ fc_cache' = r.cache
        /\ fc_hits' = IF r.hit THEN fc_hits + 1 ELSE fc_hits
        /\ fc_misses' = IF r.hit THEN fc_misses ELSE fc_misses + 1
        /\ lastOp' = FCObs(Obs("get", key, r.result, MapHas(fc_cache, key), FCExpiryOf(key),
                               now, MapKeySeq(fc_cache), MapKeySeq(r.cache)))
  /\ UNCHANGED <<now, impl, debVars, srvVars, hookVars, cmVars, ccVars, fc_timers, fc_sets>>

\* has(key): as get(key), without the counters.
FCHas(key) ==
  /\ impl = "FrontendCache"
  /\ LET r == FC_Get(fc_cache, key, now)
     IN /\ fc_cache' = r.cache
        /\ lastOp' = FCObs(Obs("has", key, IF r.hit THEN "true" ELSE "false",
                               MapHas(fc_cache, key), FCExpiryOf(key), now,
                               MapKeySeq(fc_cache), MapKeySeq(r.cache)))
  /\ UNCHANGED <<now, impl, debVars, srvVars, hookVars, cmVars, ccVars, fc_timers, fc_hits, fc_misses, fc_sets>>

FCClear ==
  /\ impl = "FrontendCache"
  /\ fc_cache' = <<>>
  /\ fc_hits' = 0
  /\ fc_misses' = 0
  /\ lastOp' = Obs("clear", "a", NULL, FALSE, 0, now, MapKeySeq(fc_cache), <<>>)
  /\ UNCHANGED <<now, impl, debVars, srvVars, hookVars, cmVars, ccVars, fc_timers, fc_sets>>

\* The callback of set()'s "setTimeout(() => { this.cache.delete(key) }, ttl)":
\* it runs no earlier than its due time.
FCTimer(i) ==
  /\ impl = "FrontendCache"
  /\ i \in 1..Len(fc_timers)
  /\ now >= fc_timers[i].due
  /\ fc_cache' = MapDelete(fc_cache, fc_timers[i].key)
  /\ fc_timers' = [j \in 1..(Len(fc_timers) - 1) |->
                     IF j < i THEN fc_timers[j] ELSE fc_timers[j + 1]]
  /\ lastOp' = FCObs(Obs("timer", fc_timers[i].key, NULL, MapHas(fc_cache, fc_timers[i].key),
                         FCExpiryOf(fc_timers[i].key), now, MapKeySeq(fc_cache),
                         MapKeySeq(MapDelete(fc_cache, fc_timers[i].key))))
  /\ UNCHANGED <<now, impl, debVars, srvVars, hookVars, cmVars, ccVars, fc_hits, fc_misses, fc_sets>>

(***************************************************************************)
(* ClientCache (src/client/src/utils/performance.jsx 5-201).               *)
(***************************************************************************)
CCKeys == {"a", "b"}

\* constructor: "prefix = 'dashboard_cache_'"
Prefix == "dashboard_cache_"

generateKey(key) == Prefix \o key

\* "key.startsWith(this.prefix)", over the keys localStorage can hold here.
StartsWithPrefix(k) == \E key \in CCKeys : k = generateKey(key)

\* "JSON.stringify({ value, expiry })" and "JSON.parse(stored)": the text keeps
\* the two fields (plain data and null come back as they were written).
JSONStringify(value, expiry) == [json |-> <<value, expiry>>]

JSONParse(text) == [value |-> text.json[1], expiry |-> text.json[2]]

\* Whether a call of a localStorage method throws.
LS_Throws(mode, call) == mode = "denied" \/ (mode = "full" /\ call = "setItem")

\* "try { ... } catch (e) { console.warn(...) }" around the localStorage calls
\* of a method: the exception is logged, none leaves the method.
Mut_CC_Try(thrown) == [warned |-> FALSE, escaped |-> thrown]

CC_Try(thrown) == [warned |-> thrown, escaped |-> FALSE]

\* get(), restoreFromStorage(): "if (Date.now() <= expiry)" else expired
CC_Expired(t, expiry) == ~(t <= expiry)

\* set(key, value, ttl) at time t
CC_Set(mem, tt, store, mode, key, value, ttlArg, t) ==
  LET fullKey == generateKey(key)
      expiry == t + ttlArg
  IN [mem |-> MapSet(mem, fullKey, value),
      ttl |-> MapSet(tt, fullKey, expiry),
      ls |-> IF mode = "ok"
               THEN MapSet(store, fullKey, JSONStringify(value, expiry))
               ELSE store,
      threw |-> CC_Try(LS_Throws(mode, "setItem")).escaped]

\* delete(key)
CC_Delete(mem, tt, store, mode, key) ==
  LET fullKey == generateKey(key)
  IN [mem |-> MapDelete(mem, fullKey),
      ttl |-> MapDelete(tt, fullKey),
      ls |-> IF mode = "denied" THEN store ELSE MapDelete(store, fullKey),
      threw |-> CC_Try(LS_Throws(mode, "removeItem")).escaped]

\* get(key) at time t: the memory cache first, then localStorage.
CC_Get(mem, tt, store, mode, key, t) ==
  LET fullKey == generateKey(key)
      same == [mem |-> mem, ttl |-> tt, ls |-> store]
      read == CC_Try(LS_Throws(mode, "getItem")).escaped
  IN IF MapHas(mem, fullKey)
       THEN IF ~CC_Expired(t, MapGet(tt, fullKey))
              THEN [result |-> MapGet(mem, fullKey), found |-> TRUE, st |-> same,
                    threw |-> FALSE]
              ELSE [result |-> NULL, found |-> FALSE,
                    st |-> CC_Delete(mem, tt, store, mode, key),
                    threw |-> CC_Delete(mem, tt, store, mode, key).threw]
       ELSE IF mode = "denied" \/ ~MapHas(store, fullKey)
              THEN [result |-> NULL, found |-> FALSE, st |-> same, threw |-> read]
              ELSE LET e == JSONParse(MapGet(store, fullKey))
                   IN IF ~CC_Expired(t, e.expiry)
                        THEN [result |-> e.value, found |-> TRUE,
                              st |-> [mem |-> MapSet(mem, fullKey, e.value),
                                      ttl |-> MapSet(tt, fullKey, e.expiry),
                                      ls |-> store],
                              threw |-> read]
                        ELSE [result |-> NULL, found |-> FALSE,
                              st |-> [mem |-> mem, ttl |-> tt,
                                      ls |-> MapDelete(store, fullKey)],
                              threw |-> read]

\* clear(): both maps, and the localStorage items with the prefix.
CC_Clear(store, mode) ==
  [mem |-> <<>>, ttl |-> <<>>,
   ls |-> IF mode = "denied"
            THEN store
            ELSE SelectSeq(store, LAMBDA e : ~StartsWithPrefix(e.k)),
   threw |-> CC_Try(LS_Throws(mode, "length")).escaped]

\* cleanup() at time t: every key of this.ttl with now > expiry leaves the maps
\* and localStorage.
CC_Cleanup(mem, tt, store, mode, t) ==
  LET expiredKeys == {tt[i].k : i \in {j \in 1..Len(tt) : t > tt[j].v}}
  IN [mem |-> SelectSeq(mem, LAMBDA e : e.k \notin expiredKeys),
      ttl |-> SelectSeq(tt, LAMBDA e : e.k \notin expiredKeys),
      ls |-> IF mode = "denied"
               THEN store
               ELSE SelectSeq(store, LAMBDA e : e.k \notin expiredKeys),
      threw |-> expiredKeys # {} /\ CC_Try(LS_Throws(mode, "removeItem")).escaped]

\* restoreFromStorage() at time t, from item i on ("for (let i = 0; i <
\* localStorage.length; i++)"): an unexpired item enters the maps, an expired
\* one is removed from localStorage while the loop goes on to i + 1.
RECURSIVE CC_RestoreFrom(_, _, _, _, _)
CC_RestoreFrom(i, mem, tt, store, t) ==
  IF i > Len(store)
    THEN [mem |-> mem, ttl |-> tt, ls |-> store]
    ELSE IF ~StartsWithPrefix(store[i].k)
      THEN CC_RestoreFrom(i + 1, mem, tt, store, t)
      ELSE LET e == JSONParse(store[i].v)
           IN IF ~CC_Expired(t, e.expiry)
                THEN CC_RestoreFrom(i + 1, MapSet(mem, store[i].k, e.value),
                                    MapSet(tt, store[i].k, e.expiry), store, t)
                ELSE CC_RestoreFrom(i + 1, mem, tt, MapDelete(store, store[i].k), t)

CC_Restore(store, mode, t) ==
  IF mode = "denied"
    THEN [mem |-> <<>>, ttl |-> <<>>, ls |-> store,
          threw |-> CC_Try(LS_Throws(mode, "length")).escaped]
    ELSE [mem |-> CC_RestoreFrom(1, <<>>, <<>>, store, t).mem,
          ttl |-> CC_RestoreFrom(1, <<>>, <<>>, store, t).ttl,
          ls |-> CC_RestoreFrom(1, <<>>, <<>>, store, t).ls,
          threw |-> FALSE]

\* getStats(): the memory size and the number of items with the prefix (the
\* usage figure, a size in KB, is left out).
CC_GetStats(mem, store, mode) ==
  [memorySize |-> Len(mem),
   storageKeys |-> IF mode = "denied"
                     THEN 0
                     ELSE Len(SelectSeq(store, LAMBDA e : StartsWithPrefix(e.k)))]

\* Whether localStorage holds an item for a key, where it can be read.
LSHas(key) == ls_mode # "denied" /\ MapHas(ls, generateKey(key))

CCHad(key) == MapHas(cc_mem, generateKey(key)) \/ LSHas(key)

CCExpiryOf(key) ==
  IF MapHas(cc_ttl, generateKey(key)) THEN MapGet(cc_ttl, generateKey(key))
  ELSE IF LSHas(key) THEN JSONParse(MapGet(ls, generateKey(key))).expiry
  ELSE 0

CCSet(key, value, ttlArg) ==
  /\ impl = "ClientCache"
  /\ LET r == CC_Set(cc_mem, cc_ttl, ls, ls_mode, key, value, ttlArg, now)
     IN /\ cc_mem' = r.mem
        /\ cc_ttl' = r.ttl
        /\ ls' = r.ls
        /\ lastOp' = [Obs("set", key, NULL, CCHad(key), now + ttlArg, now,
                          MapKeySeq(cc_mem), MapKeySeq(r.mem))
                        EXCEPT !.threw = r.threw, !.value = value]
  /\ UNCHANGED <<now, impl, ls_mode, cmVars, fcVars, debVars, srvVars, hookVars>>

CCGet(key) ==
  /\ impl = "ClientCache"
  /\ LET r == CC_Get(cc_mem, cc_ttl, ls, ls_mode, key, now)
     IN /\ cc_mem' = r.st.mem
        /\ cc_ttl' = r.st.ttl
        /\ ls' = r.st.ls
        /\ lastOp' = [Obs("get", key, r.result, CCHad(key), CCExpiryOf(key), now,
                          MapKeySeq(cc_mem), MapKeySeq(r.st.mem))
                        EXCEPT !.threw = r.threw]
  /\ UNCHANGED <<now, impl, ls_mode, cmVars, fcVars, debVars, srvVars, hookVars>>

\* has(key): "return this.get(key) !== null"
CCHas(key) ==
  /\ impl = "ClientCache"
  /\ LET r == CC_Get(cc_mem, cc_ttl, ls, ls_mode, key, now)
     IN /\ cc_mem' = r.st.mem
        /\ cc_ttl' = r.st.ttl
        /\ ls' = r.st.ls
        /\ lastOp' = [Obs("has", key, IF r.result # NULL THEN "true" ELSE "false",
                          CCHad(key), CCExpiryOf(key), now,
                          MapKeySeq(cc_mem), MapKeySeq(r.st.mem))
                        EXCEPT !.threw = r.threw]
  /\ UNCHANGED <<now, impl, ls_mode, cmVars, fcVars, debVars, srvVars, hookVars>>

CCDelete(key) ==
  /\ impl = "ClientCache"
  /\ LET r == CC_Delete(cc_mem, cc_ttl, ls, ls_mode, key)
     IN /\ cc_mem' = r.mem
        /\ cc_ttl' = r.ttl
        /\ ls' = r.ls
        /\ lastOp' = [Obs("delete", key, NULL, CCHad(key), CCExpiryOf(key), now,
                          MapKeySeq(cc_mem), MapKeySeq(r.mem))
                        EXCEPT !.threw = r.threw]
  /\ UNCHANGED <<now, impl, ls_mode, cmVars, fcVars, debVars, srvVars, hookVars>>

CCClear ==
  /\ impl = "ClientCache"
  /\ LET r == CC_Clear(ls, ls_mode)
     IN /\ cc_mem' = r.mem
        /\ cc_ttl' = r.ttl
        /\ ls' = r.ls
        /\ lastOp' = [Obs("clear", "a", NULL, FALSE, 0, now, MapKeySeq(cc_mem), <<>>)
                        EXCEPT !.threw = r.threw]
  /\ UNCHANGED <<now, impl, ls_mode, cmVars, fcVars, debVars, srvVars, hookVars>>

\* The callback of "setInterval(() => this.cleanup(), 60000)".
CCCleanup ==
  /\ impl = "ClientCache"
  /\ LET r == CC_Cleanup(cc_mem, cc_ttl, ls, ls_mode, now)
     IN /\ cc_mem' = r.mem
        /\ cc_ttl' = r.ttl
        /\ ls' = r.ls
        /\ lastOp' = [Obs("cleanup", "a", NULL, FALSE, 0, now,
                          MapKeySeq(cc_mem), MapKeySeq(r.mem))
                        EXCEPT !.threw = r.threw]
  /\ UNCHANGED <<now, impl, ls_mode, cmVars, fcVars, debVars, srvVars, hookVars>>

(***************************************************************************)
(* debounce (src/client/src/utils/performance.jsx 204-218, and the copy    *)
(* without the immediate argument in src/unnamed/part_002 10-20).          *)
(* A timer is [id, due, args]: the callback "later" of the call that set   *)
(* it, which closes over that call's args.                                 *)
(***************************************************************************)
Mut_DB_ClearTimeout(timers, id) == timers

\* clearTimeout(id): a pending timer with that id is dropped, else nothing.
DB_ClearTimeout(timers, id) == {tm \in timers : tm.id # id}

\* executedFunction(...args) at time t; id is the id setTimeout returns and wait
\* debounce's wait argument.
DB_Call(immediate, timeout, timers, args, t, id, wait) ==
  [callNow |-> immediate /\ timeout = 0,
   timers |-> DB_ClearTimeout(timers, timeout)
                \cup {[id |-> id, due |-> t + wait, args |-> args]},
   timeout |-> id]

\* later() of timer tm: performance.jsx sets timeout = null and calls func
\* unless immediate; part_002 calls clearTimeout(timeout) and then func.
DB_Later(variant, immediate, timeout, timers, tm) ==
  IF variant = "utils"
    THEN [timers |-> timers \ {tm}, timeout |-> 0, invoke |-> ~immediate]
    ELSE [timers |-> DB_ClearTimeout(timers \ {tm}, timeout), timeout |-> timeout,
          invoke |-> TRUE]

\* No call of retryRequest has been made.
NoRetry ==
  [maxRetries |-> 0, delay |-> 0, i |-> 0, pc |-> "idle", calls |-> 0,
   outcomes |-> <<>>, waits |-> <<>>, result |-> NULL]

DebIdle ==
  /\ db_variant = "utils"
  /\ db_immediate = FALSE
  /\ db_timeout = 0
  /\ db_timers = {}
  /\ db_calls = <<>>
  /\ db_invoked = <<>>
  /\ rt = NoRetry

Invocation(args) == [args |-> args, at |-> now, ncalls |-> Len(db_calls)]

DebCall(args) ==
  /\ Len(db_calls) < MaxCalls
  /\ LET r == DB_Call(db_immediate, db_timeout, db_timers, args, now, Len(db_calls) + 1,
                     DebWait)
     IN /\ db_timers' = r.timers
        /\ db_timeout' = r.timeout
        /\ db_calls' = Append(db_calls, [args |-> args, at |-> now])
        /\ db_invoked' = IF r.callNow
                           THEN Append(db_invoked, [Invocation(args) EXCEPT
                                                      !.ncalls = Len(db_calls) + 1])
                           ELSE db_invoked
  /\ UNCHANGED <<now, db_variant, db_immediate, rt, cacheVars, hookVars, srvVars>>

\* A timer callback runs no earlier than its due time.
DebLater(tm) ==
  /\ tm \in db_timers
  /\ now >= tm.due
  /\ LET r == DB_Later(db_variant, db_immediate, db_timeout, db_timers, tm)
     IN /\ db_timers' = r.timers
        /\ db_timeout' = r.timeout
        /\ db_invoked' = IF r.invoke THEN Append(db_invoked, Invocation(tm.args))
                                     ELSE db_invoked
  /\ UNCHANGED <<now, db_variant, db_immediate, db_calls, rt, cacheVars, hookVars, srvVars>>

\* The clock moves on once every due timer callback has run.
DebTick ==
  /\ now < DebMaxTime
  /\ \A tm \in db_timers : tm.due > now
  /\ now' = now + 1
  /\ UNCHANGED <<cacheVars, debVars, srvVars, hookVars>>

(***************************************************************************)
(* RequestOptimizer.retryRequest (src/client/src/utils/performance.jsx     *)
(* 369-381).  requestFn resolves with a value or rejects with an error;    *)
(* outcomes records how each attempt settled, waits the delay argument of  *)
(* each setTimeout.                                                        *)
(***************************************************************************)
\* "for (let i = 0; i <= maxRetries; i++)" at its test, i being r.i: the body
\* calls requestFn, the end of the loop returns undefined.
RT_Loop(r) ==
  IF r.i <= r.maxRetries
    THEN [r EXCEPT !.pc = "request", !.calls = @ + 1]
    ELSE [r EXCEPT !.pc = "resolved", !.result = "undefined"]

\* retryRequest(requestFn, maxRetries, delay) up to its first await.
RT_Start(maxRetries, delay) ==
  RT_Loop([NoRetry EXCEPT !.maxRetries = maxRetries, !.delay = delay])

Mut_RT_Settle(r, ok, v) ==
  LET r1 == [r EXCEPT !.outcomes = Append(@, [ok |-> ok, v |-> v])] IN
  IF ok THEN [r1 EXCEPT !.pc = "resolved", !.result = v]
  ELSE [r1 EXCEPT !.pc = "timer", !.waits = Append(@, r.delay * (2 ^ r.i))]

\* "return await requestFn()" settles: resolved, retryRequest returns the
\* value; rejected, the catch block rethrows on the last attempt and otherwise
\* awaits setTimeout(resolve, delay * Math.pow(2, i)).
RT_Settle(r, ok, v) ==
  LET r1 == [r EXCEPT !.outcomes = Append(@, [ok |-> ok, v |-> v])] IN
  IF ok THEN [r1 EXCEPT !.pc = "resolved", !.result = v]
  ELSE IF r.i = r.maxRetries THEN [r1 EXCEPT !.pc = "rejected", !.result = v]
  ELSE [r1 EXCEPT !.pc = "timer", !.waits = Append(@, r.delay * (2 ^ r.i))]

RetrySettle(ok, v) ==
  /\ rt.pc = "request"
  /\ rt' = RT_Settle(rt, ok, v)
  /\ UNCHANGED <<now, db_variant, db_immediate, db_timeout, db_timers, db_calls,
                 db_invoked, cacheVars, hookVars, srvVars>>

\* The timer of the backoff fires: "i++" and the loop test.
RetryTimer ==
  /\ rt.pc = "timer"
  /\ rt' = RT_Loop([rt EXCEPT !.i = @ + 1])
  /\ UNCHANGED <<now, db_variant, db_immediate, db_timeout, db_timers, db_calls,
                 db_invoked, cacheVars, hookVars, srvVars>>

(***************************************************************************)
(* The filter hooks: useDashboardData (src/unnamed/part_001) and the page  *)
(* component IndexChairmanDaily (src/unnamed/part_002).  The metrics and   *)
(* cached states of part_002 are display counters and flags that no filter *)
(* or option list depends on; they are left out.                           *)
(***************************************************************************)
Hooks == {"useDashboardData", "IndexChairmanDaily"}

FilterKeys == {"vertical", "business", "site", "year", "month", "date"}

\* The values a caller passes for a filter.
Options(key) ==
  CASE key = "vertical" -> {"All", "Energy", "Logistics"}
    [] key = "business" -> {"Power"}
    [] key = "site"     -> {"Mundra"}
    [] key = "year"     -> {"2023"}
    [] key = "month"    -> {"2"}
    [] key = "date"     -> {"2024-01-15"}

\* The argument of useState for filters.
InitialFilters(h) ==
  IF h = "useDashboardData"
    THEN [vertical |-> "", business |-> "", site |-> "", year |-> "", month |-> "",
          date |-> ""]
    ELSE [vertical |-> "", business |-> "", site |-> "", year |-> "2024", month |-> "1",
          date |-> ""]

\* The debounced functions each component creates.
Debouncers(h) ==
  IF h = "useDashboardData"
    THEN {"debouncedUpdateBusiness", "debouncedUpdateSite", "debouncedUpdateMonth"}
    ELSE {"debouncedUpdateFilter"}

AllDebouncers == Debouncers("useDashboardData") \cup Debouncers("IndexChairmanDaily")

\* updateFilter of part_001 routes vertical, business and year to a debounced
\* function each and sets the other filters at once ("direct"); the dropdowns of
\* part_002 all call the one debouncedUpdateFilter.
DebouncerOf(h, key) ==
  IF h = "IndexChairmanDaily" THEN "debouncedUpdateFilter"
  ELSE CASE key = "vertical" -> "debouncedUpdateBusiness"
         [] key = "business" -> "debouncedUpdateSite"
         [] key = "year"     -> "debouncedUpdateMonth"
         [] OTHER            -> "direct"

Mut_H1_Debounced(f, key, value) == [f EXCEPT ![key] = value]

\* part_001: the function wrapped by a debounced function.  useCallback(..., [])
\* keeps the debounced function of the first render, whose closure holds the
\* filters of that render: the initial ones.
H1_Debounced(f, key, value) ==
  LET closure == InitialFilters("useDashboardData") IN
  IF value # closure[key]
    THEN CASE key = "vertical" -> [f EXCEPT !.vertical = value, !.business = "",
                                            !.site = ""]
           [] key = "business" -> [f EXCEPT !.business = value, !.site = ""]
           [] key = "year"     -> [f EXCEPT !.year = value, !.month = "", !.date = ""]
    ELSE f

\* part_001: the else branch of updateFilter.
H1_Direct(f, key, value) == [f EXCEPT ![key] = value]

\* part_001: the query keys of the useQuery calls that are enabled.
H1_QueryKeys(f) ==
  {[q |-> "vertical", arg |-> ""], [q |-> "years", arg |-> ""]}
    \cup (IF f.vertical # "" /\ f.vertical # "All"
            THEN {[q |-> "business", arg |-> f.vertical]} ELSE {})
    \cup (IF f.business # "" /\ f.business # "All"
            THEN {[q |-> "site", arg |-> f.business]} ELSE {})
    \cup (IF f.year # "" THEN {[q |-> "months", arg |-> f.year]} ELSE {})

\* part_002: the setFilters calls of the debounced function.
H2_Filters(f, key, value) ==
  LET f1 == [f EXCEPT ![key] = value] IN
  CASE key = "vertical" -> [f1 EXCEPT !.business = "", !.site = ""]
    [] key = "business" -> [f1 EXCEPT !.site = ""]
    [] OTHER            -> f1

EmptyList == [kind |-> "empty", type |-> "", arg |-> ""]

\* What the API answers to a call: the list for that call's argument.
Response(call) == [kind |-> "list", type |-> call.type, arg |-> call.arg]

\* part_002: the setData calls of the debounced function.
H2_Data(d, key) ==
  CASE key = "vertical" -> [d EXCEPT !.business = EmptyList, !.site = EmptyList]
    [] key = "business" -> [d EXCEPT !.site = EmptyList]
    [] OTHER            -> d

\* part_002: the fetchData calls of the debounced function.
H2_Fetches(key, value) ==
  CASE key = "vertical" /\ value # "" /\ value # "All" ->
         <<[type |-> "getBusiness", arg |-> value]>>
    [] key = "business" /\ value # "" /\ value # "All" ->
         <<[type |-> "getSite", arg |-> value]>>
    [] key = "year" -> <<[type |-> "getMonths", arg |-> value]>>
    [] OTHER -> <<>>

\* part_002: loadInitialData, the effect that runs on mount and after a render
\* with another filters.year.
H2_LoadInitialData(year) ==
  <<[type |-> "getVertical", arg |-> ""], [type |-> "getYears", arg |-> ""],
    [type |-> "getMonths", arg |-> year]>>

H2_Effect(f, g) == IF g.year # f.year THEN H2_LoadInitialData(g.year) ELSE <<>>

FetchTypes == {"getVertical", "getBusiness", "getSite", "getYears", "getMonths"}

DataKeys == {"vertical", "business", "site", "years", "months"} \cup FetchTypes

SeqToSet(s) == {s[i] : i \in 1..Len(s)}

RemoveAt(s, i) == [j \in 1..(Len(s) - 1) |-> IF j < i THEN s[j] ELSE s[j + 1]]

Undefined == [kind |-> "undefined", type |-> "", arg |-> ""]

\* History of an API type: the argument of the call issued last, how it ended,
\* whether another call of the type was awaiting its response when it was
\* issued, and its position among the calls awaiting theirs (0 once answered).
NoFetch == [arg |-> "", status |-> "none", overlap |-> FALSE, pos |-> 0]

\* The arguments of the calls of that type in batch, in order.
RECURSIVE ArgsOf(_, _)
ArgsOf(batch, type) ==
  IF batch = <<>> THEN <<>>
  ELSE (IF Head(batch).type = type THEN <<Head(batch).arg>> ELSE <<>>)
         \o ArgsOf(Tail(batch), type)

NoneInFlight == [t \in FetchTypes |-> <<>>]

RECURSIVE SumLen(_, _)
SumLen(f, S) ==
  IF S = {} THEN 0 ELSE LET t == CHOOSE x \in S : TRUE IN Len(f[t]) + SumLen(f, S \ {t})

InFlightCount == SumLen(inflight, FetchTypes)

\* The index in s of the last call of that type, 0 if there is none.
LastOf(s, type) ==
  LET I == {i \in 1..Len(s) : s[i].type = type}
  IN IF I = {} THEN 0 ELSE CHOOSE i \in I : \A j \in I : j <= i

\* History after the calls in batch have been issued, all being the calls then
\* awaiting their response.
IssuedAfter(iss, batch, all) ==
  [t \in FetchTypes |->
     IF LastOf(batch, t) = 0 THEN iss[t]
     ELSE [arg |-> batch[LastOf(batch, t)].arg, status |-> "pending",
           overlap |-> Len(all[t]) >= 2, pos |-> Len(all[t])]]

AddInFlight(inf, batch) == [t \in FetchTypes |-> inf[t] \o ArgsOf(batch, t)]

\* part_002: fetchData up to its await, for each call of batch in turn:
\* setLoading(prev => ({ ...prev, [type]: true })) and the call to the API.
H2_StartFetches(batch) ==
  /\ InFlightCount + Len(batch) <= MaxInFlight
  /\ loading' = loading \cup {c.type : c \in SeqToSet(batch)}
  /\ inflight' = AddInFlight(inflight, batch)
  /\ issued' = IssuedAfter(issued, batch, AddInFlight(inflight, batch))

HookStart(h) ==
  /\ hook = h
  /\ filters = InitialFilters(h)
  /\ hk_deb = [d \in AllDebouncers |-> [timeout |-> 0, timers |-> {}]]
  /\ hk_calls = 0
  /\ data = [k \in DataKeys |-> IF k \in FetchTypes THEN Undefined ELSE EmptyList]
  /\ applied = [key |-> "", value |-> "", before |-> InitialFilters(h),
                after |-> InitialFilters(h),
                fetches |-> {}]
  /\ IF h = "useDashboardData"
       THEN /\ rq = H1_QueryKeys(InitialFilters(h))
            /\ loading = {}
            /\ inflight = NoneInFlight
            /\ issued = [t \in FetchTypes |-> NoFetch]
       ELSE /\ rq = {}
            /\ loading = {"getVertical", "getYears", "getMonths"}
            /\ inflight = AddInFlight(NoneInFlight,
                                      H2_LoadInitialData(InitialFilters(h).year))
            /\ issued = IssuedAfter([t \in FetchTypes |-> NoFetch],
                                    H2_LoadInitialData(InitialFilters(h).year), inflight)

HookIdle == HookStart("useDashboardData")

\* The function a debounced function wraps, called with (key, value); for
\* part_002 together with the effect the next render runs.
HookApply(key, value) ==
  /\ IF hook = "useDashboardData"
       THEN /\ filters' = H1_Debounced(filters, key, value)
            /\ rq' = rq \cup H1_QueryKeys(filters')
            /\ applied' = [key |-> key, value |-> value, before |-> filters,
                           after |-> filters',
                           fetches |-> {[type |-> k.q, arg |-> k.arg] :
                                          k \in H1_QueryKeys(filters')}]
            /\ UNCHANGED <<data, loading, inflight, issued>>
       ELSE /\ filters' = H2_Filters(filters, key, value)
            /\ data' = H2_Data(data, key)
            /\ H2_StartFetches(H2_Fetches(key, value) \o H2_Effect(filters, filters'))
            /\ applied' = [key |-> key, value |-> value, before |-> filters,
                           after |-> filters',
                           fetches |-> SeqToSet(H2_Fetches(key, value)
                                                  \o H2_Effect(filters, filters'))]
            /\ UNCHANGED rq

\* The user picks a value: updateFilter(key, value) of part_001,
\* debouncedUpdateFilter(key, value) of part_002.
HookUpdateFilter(key, value) ==
  /\ hk_calls < MaxUpdates
  /\ hk_calls' = hk_calls + 1
  /\ LET d == DebouncerOf(hook, key) IN
     IF d = "direct"
       THEN /\ filters' = H1_Direct(filters, key, value)
            /\ rq' = rq \cup H1_QueryKeys(filters')
            /\ applied' = [key |-> key, value |-> value, before |-> filters,
                           after |-> filters', fetches |-> {}]
            /\ UNCHANGED <<hk_deb, data, loading, inflight, issued>>
       ELSE /\ LET r == DB_Call(FALSE, hk_deb[d].timeout, hk_deb[d].timers,
                                <<key, value>>, now, hk_calls + 1, FilterWait)
               IN hk_deb' = [hk_deb EXCEPT ![d] = [timeout |-> r.timeout,
                                                   timers |-> r.timers]]
            /\ UNCHANGED <<filters, rq, applied, data, loading, inflight, issued>>
  /\ UNCHANGED <<now, hook, cacheVars, debVars, srvVars>>

\* The timer callback of a debounced function.
HookLater(d, tm) ==
  /\ tm \in hk_deb[d].timers
  /\ now >= tm.due
  /\ LET r == DB_Later(IF hook = "useDashboardData" THEN "utils" ELSE "page", FALSE,
                       hk_deb[d].timeout, hk_deb[d].timers, tm)
     IN /\ hk_deb' = [hk_deb EXCEPT ![d] = [timeout |-> r.timeout, timers |-> r.timers]]
        /\ HookApply(tm.args[1], tm.args[2])
  /\ UNCHANGED <<now, hook, hk_calls, cacheVars, debVars, srvVars>>

\* part_002: fetchData from its await on, for the i-th pending call of that
\* type: the API answers (ok) or throws.
HookFetchDone(type, i, ok) ==
  /\ hook = "IndexChairmanDaily"
  /\ i \in 1..Len(inflight[type])
  /\ LET c == [type |-> type, arg |-> inflight[type][i]]
     IN /\ data' = [data EXCEPT ![type] = IF ok THEN Response(c) ELSE EmptyList]
        /\ loading' = loading \ {type}
        /\ inflight' = [inflight EXCEPT ![type] = RemoveAt(inflight[type], i)]
        /\ issued' = IF i = issued[type].pos
                       THEN [issued EXCEPT ![type].status =
                                             IF ok THEN "ok" ELSE "failed",
                                           ![type].pos = 0]
                       ELSE IF i < issued[type].pos
                         THEN [issued EXCEPT ![type].pos = @ - 1]
                         ELSE issued
  /\ UNCHANGED <<now, hook, filters, hk_deb, hk_calls, rq, applied, cacheVars, debVars, srvVars>>

\* part_002: the calls refreshAllData makes.
H2_RefreshFetches(f) ==
  <<[type |-> "getVertical", arg |-> ""], [type |-> "getYears", arg |-> ""]>>
    \o (IF f.vertical # "" /\ f.vertical # "All"
          THEN <<[type |-> "getBusiness", arg |-> f.vertical]>> ELSE <<>>)
    \o (IF f.business # "" /\ f.business # "All"
          THEN <<[type |-> "getSite", arg |-> f.business]>> ELSE <<>>)
    \o (IF f.year # "" THEN <<[type |-> "getMonths", arg |-> f.year]>> ELSE <<>>)

\* refreshData of part_001 (frontendCache.clear() and a refetch of the business,
\* site and months queries with their current keys), refreshAllData of part_002.
HookRefresh ==
  /\ hk_calls < MaxUpdates
  /\ hk_calls' = hk_calls + 1
  /\ IF hook = "useDashboardData"
       THEN /\ rq' = rq \cup {[q |-> "business", arg |-> filters.vertical],
                              [q |-> "site", arg |-> filters.business],
                              [q |-> "months", arg |-> filters.year]}
            /\ fc_cache' = <<>>
            /\ fc_hits' = 0
            /\ fc_misses' = 0
            /\ UNCHANGED <<loading, inflight, issued>>
       ELSE /\ H2_StartFetches(H2_RefreshFetches(filters))
            /\ UNCHANGED <<rq, fc_cache, fc_hits, fc_misses>>
  /\ UNCHANGED <<now, hook, filters, hk_deb, data, applied, impl, cmVars, ccVars, fc_timers,
                 fc_sets, lastOp, debVars, srvVars>>

\* The clock moves on once every due timer callback has run.
HookTick ==
  /\ now < HookMaxTime
  /\ \A d \in AllDebouncers : \A tm \in hk_deb[d].timers : tm.due > now
  /\ now' = now + 1
  /\ UNCHANGED <<cacheVars, debVars, srvVars, hookVars>>


(***************************************************************************)
(* The server: the filter routes of src/server/routes.ts, the database     *)
(* behind databaseService.executeQuery, and cacheService.  The module      *)
(* "./services/cache" that routes.ts imports cacheService from is not      *)
(* among the sources: the CS_ operators follow the TTL cache contract of   *)
(* the specification (set stores with expiry now + ttl and evicts the      *)
(* oldest-inserted entry at capacity; get returns the value while          *)
(* now < expiry and removes an expired entry; a sweep removes the expired  *)
(* ones).  One tick of the server clock is five minutes.                   *)
(***************************************************************************)
Endpoints == {"getVertical", "getBusiness", "getSite", "getYearsFromSecAuto",
              "getMonthFromSecAuto"}

\* The request bodies sent to an endpoint: [bucketId, userId, arg], arg being
\* the vertical, Business or year of the body.
Bodies(ep) ==
  CASE ep = "getVertical" -> {[bucketId |-> "1", userId |-> "7", arg |-> ""]}
    [] ep = "getBusiness" -> {[bucketId |-> "1", userId |-> "7", arg |-> "Energy"]}
    [] ep = "getSite" -> {[bucketId |-> "1", userId |-> "7", arg |-> "Power"]}
    [] ep = "getYearsFromSecAuto" -> {[bucketId |-> "", userId |-> "", arg |-> ""]}
    [] ep = "getMonthFromSecAuto" -> {[bucketId |-> "", userId |-> "", arg |-> "2024"]}

\* const cacheKey = ... of each handler.
CacheKey(ep, b) ==
  CASE ep = "getVertical" -> "vertical_" \o b.bucketId \o "_" \o b.userId
    [] ep = "getBusiness" -> "business_" \o b.bucketId \o "_" \o b.userId \o "_" \o b.arg
    [] ep = "getSite" -> "site_" \o b.bucketId \o "_" \o b.userId \o "_" \o b.arg
    [] ep = "getYearsFromSecAuto" -> "years_data"
    [] ep = "getMonthFromSecAuto" -> "months_" \o b.arg

\* The ttl argument of cacheService.set in each handler, in ticks: 600000,
\* 300000, 300000, 3600000 and 3600000 ms.
TTLOf(ep) ==
  CASE ep = "getVertical" -> 2
    [] ep = "getBusiness" -> 1
    [] ep = "getSite" -> 1
    [] ep = "getYearsFromSecAuto" -> 12
    [] ep = "getMonthFromSecAuto" -> 12

NotFoundError(ep) ==
  CASE ep = "getVertical" -> "No matching VID found"
    [] ep = "getBusiness" -> "No matching BUID found"
    [] ep = "getSite" -> "No matching SIID found"

\* cacheService, from the specification's contract.
CS_Expired(t, expiry) == t >= expiry

CS_Index(c, key) ==
  LET I == {i \in 1..Len(c) : c[i].k = key} IN IF I = {} THEN 0 ELSE CHOOSE i \in I : TRUE

CS_Get(c, key, t) ==
  LET i == CS_Index(c, key) IN
  IF i = 0 THEN [found |-> FALSE, value |-> NULL, cache |-> c]
  ELSE IF CS_Expired(t, c[i].expiry)
    THEN [found |-> FALSE, value |-> NULL, cache |-> RemoveAt(c, i)]
    ELSE [found |-> TRUE, value |-> c[i].v, cache |-> c]

CS_Set(c, key, value, ttlArg, t) ==
  LET e == [k |-> key, v |-> value, expiry |-> t + ttlArg]
      i == CS_Index(c, key)
  IN IF i # 0 THEN [c EXCEPT ![i] = e]
     ELSE IF Len(c) >= CSMaxSize THEN Append(Tail(c), e)
     ELSE Append(c, e)

CS_Sweep(c, t) == SelectSeq(c, LAMBDA e : ~CS_Expired(t, e.expiry))

\* The entries a reader can see at time t.
CS_Visible(c, t) == {c[i] : i \in {j \in 1..Len(c) : ~CS_Expired(t, c[j].expiry)}}

\* res.json / res.status(...).json of a handler.
Json200(value, isCached) ==
  [status |-> 200, data |-> value, cached |-> isCached, error |-> ""]

JsonError(code, message) ==
  [status |-> code, data |-> NULL, cached |-> FALSE, error |-> message]

\* The first query of a handler: the group query of the three scoped routes,
\* the data query of the other two.
FirstQuery(ep) ==
  IF ep \in {"getVertical", "getBusiness", "getSite"} THEN "group" ELSE "data"

Mut_R_OnCacheCheck(ep, hit) == [pc |-> FirstQuery(ep), responses |-> <<>>]

\* "const cachedData = cacheService.get(cacheKey); if (cachedData) return
\* res.json({ data: cachedData, cached: true })", else on to the first query.
R_OnCacheCheck(ep, hit) ==
  IF hit.found THEN [pc |-> "done", responses |-> <<Json200(hit.value, TRUE)>>]
  ELSE [pc |-> FirstQuery(ep), responses |-> <<>>]

\* The test on groupResult: which query comes next.
R_AfterGroup(outcome) == IF outcome = "GROUP SECURITY" THEN "data" ELSE "ids"

Mut_R_AfterIds(outcome) == "data"

\* The test "if (vidResult.length > 0)" on the USERGROUPS rows.
R_AfterIds(outcome) == IF outcome = "some" THEN "data" ELSE "notFound"

Mut_R_Catch(ep) == Json200("d1", FALSE)

\* The catch block of a handler.
R_Catch(ep) == JsonError(500, "Internal server error")

\* What a query of each kind can return.
QueryOutcomes(pc) ==
  CASE pc = "group" -> {"GROUP SECURITY", "OTHER"}
    [] pc = "ids" -> {"some", "none"}
    [] pc = "data" -> {"d1", "d2"}
    [] OTHER -> {}

\* The data of the last answer with cached: false for that key, NULL if none.
LatestData(key) == IF key \in DOMAIN cs_last THEN cs_last[key] ELSE NULL

NoRequest ==
  [ep |-> "", body |-> [bucketId |-> "", userId |-> "", arg |-> ""], key |-> "",
   pc |-> "none", held |-> FALSE, latest |-> NULL, promised |-> {}, group |-> NULL,
   ids |-> NULL, queries |-> 0, threw |-> FALSE, wrote |-> FALSE, responses |-> <<>>,
   refresh |-> FALSE, fromOld |-> FALSE]

\* A request arrives: the handler runs up to its first await.  byRefresh tells
\* whether a manual refresh of the client sent it, before what cacheService held
\* when that refresh ran.
Arrive(ep, b, byRefresh, before) ==
  /\ srv_n < MaxReq
  /\ srv_n' = srv_n + 1
  /\ LET key == CacheKey(ep, b)
         hit == CS_Get(cs_cache, key, now)
         r == R_OnCacheCheck(ep, hit)
         req == [ep |-> ep, body |-> b, key |-> key, pc |-> r.pc,
                 held |-> \E e \in CS_Visible(cs_cache, now) : e.k = key,
                 latest |-> LatestData(key),
                 promised |-> {a.data : a \in {x \in srv_answers :
                                                 /\ x.ep = ep
                                                 /\ x.body = b
                                                 /\ now < x.at + TTLOf(ep)}},
                 group |-> NULL, ids |-> NULL,
                 queries |-> IF r.pc = "done" THEN 0 ELSE 1,
                 threw |-> FALSE,
                 wrote |-> CS_Visible(hit.cache, now) # CS_Visible(cs_cache, now),
                 responses |-> r.responses,
                 refresh |-> byRefresh,
                 fromOld |-> /\ byRefresh
                             /\ hit.found
                             /\ cs_cache[CS_Index(cs_cache, key)] \in before]
     IN /\ cs_cache' = hit.cache
        /\ cs_hits' = IF hit.found THEN cs_hits + 1 ELSE cs_hits
        /\ cs_misses' = IF hit.found THEN cs_misses ELSE cs_misses + 1
        /\ IF r.pc = "done"
             THEN srv_done' = req /\ UNCHANGED reqs
             ELSE reqs' = Append(reqs, req) /\ UNCHANGED srv_done
  /\ UNCHANGED <<now, cs_last, srv_answers, sq, ds, debVars, hookVars>>

\* A request of the page's filter queries arrives.
SrvArrive(ep, b) ==
  /\ Arrive(ep, b, FALSE, {})
  /\ UNCHANGED <<rf, cacheVars>>

\* refreshData of part_001, with the requests its three refetches send (the
\* filters being those of Bodies).
RefreshRequests ==
  UNION {{[ep |-> ep, body |-> b] : b \in Bodies(ep)} :
           ep \in {"getBusiness", "getSite", "getMonthFromSecAuto"}}

ClientRefresh ==
  /\ rf.n < MaxRefresh
  /\ rf' = [n |-> rf.n + 1,
            pending |-> rf.pending
                          \cup {[ep |-> q.ep, body |-> q.body,
                                 before |-> {cs_cache[i] : i \in 1..Len(cs_cache)}] :
                                  q \in RefreshRequests}]
  /\ fc_cache' = <<>>
  /\ fc_hits' = 0
  /\ fc_misses' = 0
  /\ UNCHANGED <<now, impl, cmVars, ccVars, fc_timers, fc_sets, lastOp, debVars, hookVars,
                 cs_cache, cs_hits, cs_misses, reqs, srv_done, srv_n, cs_last,
                 srv_answers, sq, ds>>

\* A request sent by a manual refresh arrives.
SrvArriveRefresh(p) ==
  /\ p \in rf.pending
  /\ Arrive(p.ep, p.body, TRUE, p.before)
  /\ rf' = [rf EXCEPT !.pending = @ \ {p}]
  /\ UNCHANGED cacheVars

\* The awaited query of the i-th request in progress returns rows (outcome) or
\* throws, and the handler runs on to its next await or to its response.
SrvQueryDone(i, outcome) ==
  /\ i \in 1..Len(reqs)
  /\ outcome \in QueryOutcomes(reqs[i].pc) \cup {"throw"}
  /\ LET r == reqs[i]
         finished == [r EXCEPT !.pc = "done"]
     IN IF outcome = "throw"
          THEN /\ srv_done' = [finished EXCEPT !.threw = TRUE,
                                               !.responses = Append(@, R_Catch(r.ep))]
               /\ reqs' = RemoveAt(reqs, i)
               /\ UNCHANGED <<cs_cache, cs_last, srv_answers>>
        ELSE IF r.pc = "group"
          THEN /\ reqs' = [reqs EXCEPT ![i] =
                             [r EXCEPT !.group = outcome, !.pc = R_AfterGroup(outcome),
                                       !.queries = @ + 1]]
               /\ UNCHANGED <<cs_cache, cs_last, srv_answers, srv_done>>
        ELSE IF r.pc = "ids"
          THEN /\ IF R_AfterIds(outcome) = "data"
                    THEN /\ reqs' = [reqs EXCEPT ![i] =
                                       [r EXCEPT !.ids = outcome, !.pc = "data",
                                                 !.queries = @ + 1]]
                         /\ UNCHANGED srv_done
                    ELSE /\ srv_done' =
                              [finished EXCEPT
                                 !.ids = outcome,
                                 !.responses =
                                    Append(@, JsonError(404, NotFoundError(r.ep)))]
                         /\ reqs' = RemoveAt(reqs, i)
               /\ UNCHANGED <<cs_cache, cs_last, srv_answers>>
        ELSE /\ cs_cache' = CS_Set(cs_cache, r.key, outcome, TTLOf(r.ep), now)
             /\ cs_last' = [k \in DOMAIN cs_last \cup {r.key} |->
                              IF k = r.key THEN outcome ELSE cs_last[k]]
             /\ srv_answers' = srv_answers
                                 \cup {[ep |-> r.ep, body |-> r.body, data |-> outcome,
                                        at |-> now]}
             /\ srv_done' = [finished EXCEPT
                               !.wrote = @ \/ (CS_Visible(cs_cache', now)
                                                 # CS_Visible(cs_cache, now)),
                               !.responses = Append(@, Json200(outcome, FALSE))]
             /\ reqs' = RemoveAt(reqs, i)
  /\ UNCHANGED <<now, cs_hits, cs_misses, srv_n, rf, sq, ds, cacheVars, debVars, hookVars>>

(***************************************************************************)
(* The tables behind the getBusiness and getSite routes, and the rows the  *)
(* routes' SQL selects from them (ORDER BY left out: the rows as a set).   *)
(***************************************************************************)
Statuses == {"ACTIVE", "INACTIVE"}

\* The tables: two verticals, two businesses, two sites, one security group
\* and the USERGROUPS rows of user "7".
Databases ==
  {[VERTICAL |-> {[VID |-> 1, VNAME |-> "Energy"], [VID |-> 2, VNAME |-> vname]},
    BUSINESS |-> {[BUID |-> 1, BUNAME |-> "Power", VID |-> 1, BUSTATUS |-> s1],
                  [BUID |-> 2, BUNAME |-> "Ports", VID |-> 2, BUSTATUS |-> s2]},
    SITE |-> {[SIID |-> 1, SINAME |-> "Mundra", BUID |-> 1, SISTATUS |-> "ACTIVE"],
              [SIID |-> 2, SINAME |-> "Hazira", BUID |-> 2, SISTATUS |-> s3]},
    ANALYTICS_GROUPS |-> {[ANALYTICS_GROUP_ID |-> "1", ANALYTICS_GROUP_LEVEL_NAME |-> level]},
    USERGROUPS |-> {[USERID |-> "7", BUID |-> i, SIID |-> i] : i \in ids}] :
     vname \in {"Logistics", "All"}, s1 \in Statuses, s2 \in Statuses, s3 \in Statuses,
     level \in {"GROUP SECURITY", "OTHER"}, ids \in SUBSET {1, 2}}

\* groupQuery, and the test on groupResult[0].
Q_Group(db, bucketId) ==
  IF \E g \in db.ANALYTICS_GROUPS :
       g.ANALYTICS_GROUP_ID = bucketId /\ g.ANALYTICS_GROUP_LEVEL_NAME = "GROUP SECURITY"
    THEN "GROUP SECURITY" ELSE "OTHER"

\* buidQuery / siidQuery: "SELECT DISTINCT BUID (SIID) FROM USERGROUPS WHERE
\* USERID = @userId"
Q_UserIds(db, userId, column) ==
  {g[column] : g \in {x \in db.USERGROUPS : x.USERID = userId}}

\* "SELECT DISTINCT B.BUNAME FROM BUSINESS B JOIN VERTICAL V ON B.VID = V.VID
\* WHERE V.VNAME = @vertical [AND BUID IN (buidList)] AND B.BUSTATUS = 'ACTIVE'"
Q_Business(db, vertical, buids) ==
  {b.BUNAME : b \in {x \in db.BUSINESS :
                       /\ \E v \in db.VERTICAL : x.VID = v.VID /\ v.VNAME = vertical
                       /\ x.BUID \in buids
                       /\ x.BUSTATUS = "ACTIVE"}}

\* "SELECT DISTINCT s.SINAME FROM SITE s JOIN BUSINESS b ON s.BUID = b.BUID
\* WHERE b.BUNAME = @Business [AND s.SIID IN (siidList)] AND S.SISTATUS = 'ACTIVE'"
Q_Site(db, business, siids) ==
  {x.SINAME : x \in {y \in db.SITE :
                       /\ \E b \in db.BUSINESS : y.BUID = b.BUID /\ b.BUNAME = business
                       /\ y.SIID \in siids
                       /\ y.SISTATUS = "ACTIVE"}}

AllBUIDs(db) == {b.BUID : b \in db.BUSINESS}

AllSIIDs(db) == {x.SIID : x \in db.SITE}

\* The getBusiness / getSite handler from its group query to its answer, the
\* cache holding nothing for the key: status and rows.
R_Rows(db, ep, b) ==
  LET column == IF ep = "getBusiness" THEN "BUID" ELSE "SIID"
      ids == Q_UserIds(db, b.userId, column)
      all == IF ep = "getBusiness" THEN AllBUIDs(db) ELSE AllSIIDs(db)
      rows(scope) == IF ep = "getBusiness" THEN Q_Business(db, b.arg, scope)
                     ELSE Q_Site(db, b.arg, scope)
  IN IF R_AfterGroup(Q_Group(db, b.bucketId)) = "data"
       THEN [status |-> 200, rows |-> rows(all)]
     ELSE IF R_AfterIds(IF ids # {} THEN "some" ELSE "none") = "data"
       THEN [status |-> 200, rows |-> rows(ids)]
     ELSE [status |-> 404, rows |-> {}]

NoDatabase ==
  [VERTICAL |-> {}, BUSINESS |-> {}, SITE |-> {}, ANALYTICS_GROUPS |-> {},
   USERGROUPS |-> {}]

NoQuery(db) == [db |-> db, ep |-> "", arg |-> "", status |-> 0, rows |-> {}]

\* The vertical / Business a getBusiness / getSite request names.
QueryArgs(ep) == IF ep = "getBusiness" THEN {"All", "Energy"} ELSE {"All", "Power"}

\* A getBusiness or getSite request is answered from the tables.
SrvQuery(ep, arg) ==
  /\ LET r == R_Rows(sq.db, ep, [bucketId |-> "1", userId |-> "7", arg |-> arg])
     IN sq' = [db |-> sq.db, ep |-> ep, arg |-> arg, status |-> r.status,
               rows |-> r.rows]
  /\ UNCHANGED <<now, cs_cache, cs_hits, cs_misses, reqs, srv_done, srv_n, cs_last,
                 srv_answers, rf, ds, cacheVars, debVars, hookVars>>

(***************************************************************************)
(* DatabaseService (src/server/services/database.ts 21-89).  A pool is     *)
(* "connecting" from new sql.ConnectionPool until connect() settles, then  *)
(* "connected" or "failed", "closing" while close() awaits pool.close()    *)
(* and "closed" after it.  close() is called on a pool whose connect() has *)
(* settled.                                                                *)
(***************************************************************************)
\* "private pool: sql.ConnectionPool | null = null"
NoPool == [pool |-> 0, pools |-> <<>>, got |-> {}, threw |-> FALSE, n |-> 0]

\* "return this.pool.request()": the request is made from whatever this.pool
\* is at that moment; on null the call throws a TypeError.
DS_Request(d) ==
  IF d.pool = 0 THEN [d EXCEPT !.threw = TRUE]
  ELSE [d EXCEPT !.got = @ \cup {d.pools[d.pool]}]

\* getConnection() up to its await, or to its return when this.pool is set.
DSGetConnection ==
  /\ ds.n < MaxConn
  /\ IF ds.pool = 0
       THEN /\ Len(ds.pools) < MaxPools
            /\ ds' = [ds EXCEPT !.pool = Len(ds.pools) + 1,
                                !.pools = Append(@, "connecting"),
                                !.n = @ + 1]
       ELSE ds' = DS_Request([ds EXCEPT !.n = @ + 1])
  /\ UNCHANGED <<now, cs_cache, cs_hits, cs_misses, reqs, srv_done, srv_n, cs_last,
                 srv_answers, rf, sq, cacheVars, debVars, hookVars>>

\* "await this.pool.connect()" of pool p settles: resolved, getConnection goes
\* on to its return; rejected, getConnection rejects and this.pool stays.
DSConnectDone(p, ok) ==
  /\ p \in 1..Len(ds.pools)
  /\ ds.pools[p] = "connecting"
  /\ ds' = IF ok THEN DS_Request([ds EXCEPT !.pools[p] = "connected"])
           ELSE [ds EXCEPT !.pools[p] = "failed"]
  /\ UNCHANGED <<now, cs_cache, cs_hits, cs_misses, reqs, srv_done, srv_n, cs_last,
                 srv_answers, rf, sq, cacheVars, debVars, hookVars>>

\* close() up to "await this.pool.close()".
DSClose ==
  /\ ds.pool # 0
  /\ ds.pools[ds.pool] \in {"connected", "failed"}
  /\ ds' = [ds EXCEPT !.pools[ds.pool] = "closing"]
  /\ UNCHANGED <<now, cs_cache, cs_hits, cs_misses, reqs, srv_done, srv_n, cs_last,
                 srv_answers, rf, sq, cacheVars, debVars, hookVars>>

\* pool.close() of pool p has resolved: "this.pool = null".
DSCloseDone(p) ==
  /\ p \in 1..Len(ds.pools)
  /\ ds.pools[p] = "closing"
  /\ ds' = [ds EXCEPT !.pools[p] = "closed", !.pool = 0]
  /\ UNCHANGED <<now, cs_cache, cs_hits, cs_misses, reqs, srv_done, srv_n, cs_last,
                 srv_answers, rf, sq, cacheVars, debVars, hookVars>>

\* The background sweep of cacheService.
SrvSweep ==
  /\ cs_cache' = CS_Sweep(cs_cache, now)
  /\ UNCHANGED <<now, cs_hits, cs_misses, reqs, srv_done, srv_n, cs_last, srv_answers,
                 rf, sq, ds, cacheVars, debVars, hookVars>>

SrvTick ==
  /\ now < SrvMaxTime
  /\ now' = now + 1
  /\ UNCHANGED <<srvVars, cacheVars, debVars, hookVars>>

SrvQuiet ==
  /\ cs_cache = <<>>
  /\ cs_hits = 0
  /\ cs_misses = 0
  /\ reqs = <<>>
  /\ srv_done = NoRequest
  /\ srv_n = 0
  /\ cs_last = <<>>
  /\ srv_answers = {}
  /\ rf = [n |-> 0, pending |-> {}]
  /\ ds = NoPool

SrvIdle == SrvQuiet /\ sq = NoQuery(NoDatabase)

(***************************************************************************)
(* The cache classes on their own: any caller, any order of calls.         *)
(***************************************************************************)
Tick ==
  /\ now < MaxTime
  /\ now' = now + 1

CacheEmpty ==
  /\ cm_cache = <<>>
  /\ cm_ttl = <<>>
  /\ cm_fifo = <<>>
  /\ fc_cache = <<>>
  /\ fc_timers = <<>>
  /\ fc_hits = 0
  /\ fc_misses = 0
  /\ fc_sets = 0
  /\ lastOp = NoOp
  /\ cc_mem = <<>>
  /\ cc_ttl = <<>>
  /\ ls = <<>>
  /\ ls_mode = "ok"

\* The parts of the model a specification does not exercise stay as constructed.
CacheIdle == impl = "CacheManager" /\ CacheEmpty

InitCache ==
  /\ now = 0
  /\ impl \in {"CacheManager", "FrontendCache"}
  /\ CacheEmpty
  /\ DebIdle
  /\ HookIdle
  /\ SrvIdle

CacheTick == Tick /\ UNCHANGED <<cacheVars, debVars, srvVars, hookVars>>

NextCM ==
  \/ CacheTick
  \/ \E key \in Keys, value \in CacheValues, ttlArg \in TTLs : CMSet(key, value, ttlArg)
  \/ \E key \in Keys : CMGet(key)
  \/ \E key \in Keys : CMHas(key)
  \/ \E key \in Keys : CMDelete(key)
  \/ CMClear
  \/ CMCleanup

NextFC ==
  \/ CacheTick
  \/ \E key \in FCKeys, value \in CacheValues, ttlArg \in TTLs : FCSet(key, value, ttlArg)
  \/ \E key \in FCKeys : FCGet(key)
  \/ \E key \in FCKeys : FCHas(key)
  \/ FCClear
  \/ \E i \in 1..MaxSets : FCTimer(i)

vars == <<now, cacheVars, debVars, hookVars, srvVars>>

NextCache == NextCM \/ NextFC

\* Either cache class, driven by any caller.
SpecCache == InitCache /\ [][NextCache]_vars

\* CacheManager alone.
InitCM == InitCache /\ impl = "CacheManager"

SpecCM == InitCM /\ [][NextCM]_vars

\* FrontendCache alone.
InitFC == InitCache /\ impl = "FrontendCache"

SpecFC == InitFC /\ [][NextFC]_vars

\* What an earlier visit of the page left in localStorage: at most one item
\* for each key, written with an expiry before or after this visit's start.
StoredExpiries == {-1, 1}

StoredItems ==
  {[k |-> generateKey(key), v |-> JSONStringify("v1", expiry)] :
     key \in CCKeys, expiry \in StoredExpiries}

PreStores ==
  {<<>>} \cup {<<x>> : x \in StoredItems}
         \cup {p \in StoredItems \X StoredItems : p[1].k # p[2].k}

\* ClientCache alone, as its constructor leaves it.
InitCC ==
  /\ now = 0
  /\ impl = "ClientCache"
  /\ cm_cache = <<>> /\ cm_ttl = <<>> /\ cm_fifo = <<>>
  /\ fc_cache = <<>> /\ fc_timers = <<>>
  /\ fc_hits = 0 /\ fc_misses = 0 /\ fc_sets = 0
  /\ ls_mode \in {"ok", "full", "denied"}
  /\ \E store \in PreStores :
       LET r == CC_Restore(store, ls_mode, 0)
       IN /\ cc_mem = r.mem /\ cc_ttl = r.ttl /\ ls = r.ls
          /\ lastOp = [NoOp EXCEPT !.threw = r.threw]
  /\ DebIdle
  /\ HookIdle
  /\ SrvIdle

NextCC ==
  \/ CacheTick
  \/ \E key \in CCKeys, value \in CacheValues, ttlArg \in TTLs : CCSet(key, value, ttlArg)
  \/ \E key \in CCKeys : CCGet(key)
  \/ \E key \in CCKeys : CCHas(key)
  \/ \E key \in CCKeys : CCDelete(key)
  \/ CCClear
  \/ CCCleanup

SpecCC == InitCC /\ [][NextCC]_vars

(***************************************************************************)
(* C1 (TTL expiry, as claimed): a get(key) of a stored entry at a time     *)
(* now >= createdAt + ttl returns null, the instant now = createdAt + ttl  *)
(* included, whether or not a sweep or a timer has run.                    *)
(***************************************************************************)
C1_TTLExpiryAtOrAfter ==
  (lastOp.op = "get" /\ lastOp.had /\ lastOp.at >= lastOp.expiry)
    => lastOp.result = NULL

\* The part of C1 the code keeps: strictly after the expiry, get returns null.
C1_TTLExpiryAfter ==
  (lastOp.op = "get" /\ lastOp.had /\ lastOp.at > lastOp.expiry)
    => lastOp.result = NULL

C1_GetAtExpiryInstant ==
  lastOp.op = "get" /\ lastOp.had /\ lastOp.at = lastOp.expiry

(***************************************************************************)
(* C2 (capacity bound): CacheManager never holds more than maxSize         *)
(* entries; a set of a key that is not stored, made when size = maxSize,   *)
(* removes exactly one stored entry, the one whose insertion into the map  *)
(* is the oldest, and leaves size = maxSize.  (Insertion is Map insertion: *)
(* overwriting a stored key in place is none.)                             *)
(***************************************************************************)
C2_NewKeyOnFull ==
  /\ impl = "CacheManager"
  /\ lastOp.op = "set"
  /\ ~lastOp.had
  /\ lastOp.sizeBefore = maxSize

C2_CapacityBound ==
  /\ Len(cm_cache) <= maxSize
  /\ Len(cm_ttl) = Len(cm_cache)
  /\ C2_NewKeyOnFull =>
       /\ Len(cm_cache) = maxSize
       /\ lastOp.removed = {lastOp.oldest}
       /\ MapHas(cm_cache, lastOp.key)

C2_EvictedOldest ==
  /\ C2_NewKeyOnFull
  /\ lastOp.removed = {lastOp.oldest}
  /\ Len(cm_cache) = maxSize

(***************************************************************************)
(* The debounce utility on its own: any caller, any timing of the calls.   *)
(***************************************************************************)
InitDeb ==
  /\ now = 0
  /\ CacheIdle
  /\ HookIdle
  /\ SrvIdle
  /\ db_variant \in {"utils", "page"}
  /\ db_immediate \in (IF db_variant = "utils" THEN BOOLEAN ELSE {FALSE})
  /\ db_timeout = 0
  /\ db_timers = {}
  /\ db_calls = <<>>
  /\ db_invoked = <<>>
  /\ rt = NoRetry

NextDeb ==
  \/ DebTick
  \/ \E args \in Values : DebCall(args)
  \/ \E tm \in db_timers : DebLater(tm)

SpecDeb == InitDeb /\ [][NextDeb]_vars

(***************************************************************************)
(* C7 (debounce collapse), trailing-edge mode: func is never invoked       *)
(* before waitMs have passed since the last call and always with the last  *)
(* call's arguments; a call followed by another within waitMs invokes      *)
(* nothing; a call followed by no other for more than waitMs invokes func  *)
(* exactly once.  So a burst of n calls ends in one invocation, with an.   *)
(***************************************************************************)
InvocationsAfterCall(j) == {i \in 1..Len(db_invoked) : db_invoked[i].ncalls = j}

\* The call j is followed by silence for more than waitMs.
Quiescent(j) ==
  IF j < Len(db_calls) THEN db_calls[j + 1].at > db_calls[j].at + DebWait
                       ELSE now > db_calls[j].at + DebWait

\* The call j is superseded by a call within waitMs.
Superseded(j) == j < Len(db_calls) /\ db_calls[j + 1].at < db_calls[j].at + DebWait

C7_DebounceCollapse ==
  ~db_immediate =>
    /\ \A i \in 1..Len(db_invoked) :
         /\ db_invoked[i].ncalls >= 1
         /\ db_invoked[i].args = db_calls[db_invoked[i].ncalls].args
         /\ db_invoked[i].at >= db_calls[db_invoked[i].ncalls].at + DebWait
    /\ \A j \in 1..Len(db_calls) :
         /\ Cardinality(InvocationsAfterCall(j)) <= 1
         /\ Superseded(j) => InvocationsAfterCall(j) = {}
         /\ Quiescent(j) => Cardinality(InvocationsAfterCall(j)) = 1

\* A burst of three calls, each within waitMs of the one before, has ended in
\* one invocation, with the arguments of the third.
C7_BurstCollapsed ==
  /\ ~db_immediate
  /\ Len(db_calls) = 3
  /\ Superseded(1) /\ Superseded(2) /\ Quiescent(3)
  /\ db_calls[1].args # db_calls[3].args
  /\ Len(db_invoked) = 1
  /\ db_invoked[1].args = db_calls[3].args

(***************************************************************************)
(* The filter hooks on their own: any user, any timing, any order of the   *)
(* responses.                                                              *)
(***************************************************************************)
InitHook ==
  /\ now = 0
  /\ CacheIdle
  /\ DebIdle
  /\ SrvIdle
  /\ \E h \in Hooks : HookStart(h)

NextHook ==
  \/ HookTick
  \/ \E key \in FilterKeys : \E value \in Options(key) : HookUpdateFilter(key, value)
  \/ \E d \in AllDebouncers : \E tm \in hk_deb[d].timers : HookLater(d, tm)
  \/ \E type \in FetchTypes, i \in 1..MaxInFlight, ok \in BOOLEAN :
       HookFetchDone(type, i, ok)
  \/ HookRefresh

SpecHook == InitHook /\ [][NextHook]_vars

InitPage ==
  /\ now = 0
  /\ CacheIdle
  /\ DebIdle
  /\ SrvIdle
  /\ HookStart("IndexChairmanDaily")

SpecPage == InitPage /\ [][NextHook]_vars

\* A change of that filter to a value other than the one it had has been applied.
Changed(key) == applied.key = key /\ applied.value # applied.before[key]

(***************************************************************************)
(* C4 (cascade reset, vertical -> business -> site): when a change of      *)
(* vertical to a new value has been applied, vertical holds the value and  *)
(* business and site are both unset; when a change of business to a new    *)
(* value has been applied, business holds the value and site is unset.     *)
(***************************************************************************)
C4_CascadeReset ==
  /\ Changed("vertical") =>
       /\ applied.after.vertical = applied.value
       /\ applied.after.business = ""
       /\ applied.after.site = ""
  /\ Changed("business") =>
       /\ applied.after.business = applied.value
       /\ applied.after.site = ""

\* A vertical change has cleared a chosen business and a chosen site.
C4_VerticalClearedChildren ==
  /\ Changed("vertical")
  /\ applied.before.business # ""
  /\ applied.before.site # ""
  /\ filters = applied.after
  /\ filters.business = ""
  /\ filters.site = ""

(***************************************************************************)
(* C5 (cascade reset, year -> month/date): when a change of year to a new  *)
(* value has been applied, month and date are both unset and a fetch of    *)
(* the month options of the new year has been issued.                      *)
(***************************************************************************)
C5_YearCascade ==
  Changed("year") =>
    /\ applied.after.year = applied.value
    /\ applied.after.month = ""
    /\ applied.after.date = ""
    /\ \E c \in applied.fetches : c.type \in {"getMonths", "months"}
                                    /\ c.arg = applied.value

(***************************************************************************)
(* C6 (month change clears date): when a change of month to a new value    *)
(* has been applied, date is unset.                                        *)
(***************************************************************************)
C6_MonthClearsDate ==
  Changed("month") =>
    /\ applied.after.month = applied.value
    /\ applied.after.date = ""

(***************************************************************************)
(* C8 (most recent intent wins): when the fetch issued last for a level    *)
(* was issued while another fetch for that level was in flight, and both   *)
(* have been answered, the option list held for the level is the response  *)
(* of the fetch issued last.                                               *)
(***************************************************************************)
C8_LastIssuedWins ==
  \A t \in FetchTypes :
    (issued[t].overlap /\ issued[t].status = "ok" /\ inflight[t] = <<>>
       /\ data[t].kind = "list")
      => data[t] = Response([type |-> t, arg |-> issued[t].arg])

(***************************************************************************)
(* The server on its own: any requests, any timing, any database.          *)
(***************************************************************************)
InitSrv ==
  /\ now = 0
  /\ CacheIdle
  /\ DebIdle
  /\ HookIdle
  /\ SrvIdle

NextSrv ==
  \/ SrvTick
  \/ \E ep \in Endpoints : \E b \in Bodies(ep) : SrvArrive(ep, b)
  \/ \E i \in 1..MaxReq : \E outcome \in {"GROUP SECURITY", "OTHER", "some", "none",
                                          "d1", "d2", "throw"} : SrvQueryDone(i, outcome)
  \/ SrvSweep

SpecSrv == InitSrv /\ [][NextSrv]_vars

\* The server and a client that refreshes by hand.
NextRefresh ==
  \/ NextSrv
  \/ ClientRefresh
  \/ \E p \in rf.pending : SrvArriveRefresh(p)

SpecRefresh == InitSrv /\ [][NextRefresh]_vars

\* getBusiness called by any HTTP client: req.body is not validated, so userId
\* arrives as the number the page sends or as any string, and vertical is any
\* string.
KeyBodies ==
  {[bucketId |-> "1", userId |-> u, arg |-> v] : u \in {"7", "7_x"}, v \in {"y", "x_y"}}

NextKeys ==
  \/ SrvTick
  \/ \E b \in KeyBodies : SrvArrive("getBusiness", b)
  \/ \E i \in 1..MaxReq : \E outcome \in {"GROUP SECURITY", "OTHER", "some", "none",
                                          "d1", "d2", "throw"} : SrvQueryDone(i, outcome)
  \/ SrvSweep

SpecKeys == InitSrv /\ [][NextKeys]_vars

\* One call of retryRequest with any maxRetries and delay, requestFn settling
\* either way each time; every await of the call is answered in the end.
InitRetry ==
  /\ now = 0
  /\ CacheIdle
  /\ HookIdle
  /\ SrvIdle
  /\ db_variant = "utils"
  /\ db_immediate = FALSE
  /\ db_timeout = 0
  /\ db_timers = {}
  /\ db_calls = <<>>
  /\ db_invoked = <<>>
  /\ \E maxRetries \in 0..MaxRetries, delay \in {1, 2, 3} : rt = RT_Start(maxRetries, delay)

NextRetry ==
  \/ \E v \in {"r1", "r2"} : RetrySettle(TRUE, v)
  \/ \E v \in {"e1", "e2"} : RetrySettle(FALSE, v)
  \/ RetryTimer

SpecRetry == InitRetry /\ [][NextRetry]_vars /\ WF_vars(NextRetry)

\* DatabaseService on its own: any callers of getConnection() and close().
NextDb ==
  \/ DSGetConnection
  \/ \E p \in 1..MaxPools : \E ok \in BOOLEAN : DSConnectDone(p, ok)
  \/ DSClose
  \/ \E p \in 1..MaxPools : DSCloseDone(p)

SpecDb == InitSrv /\ [][NextDb]_vars

\* The getBusiness and getSite routes over each database.
InitQuery ==
  /\ now = 0
  /\ CacheIdle
  /\ DebIdle
  /\ HookIdle
  /\ SrvQuiet
  /\ \E db \in Databases : sq = NoQuery(db)

NextQuery == \E ep \in {"getBusiness", "getSite"} : \E arg \in QueryArgs(ep) : SrvQuery(ep, arg)

SpecQuery == InitQuery /\ [][NextQuery]_vars

\* The requests in progress and the one answered last.
Requests == {reqs[i] : i \in 1..Len(reqs)} \cup {srv_done}

(***************************************************************************)
(* C3 (cached repeat) as claimed: a request that arrives after an answer   *)
(* with cached: false to the same inputs, before the TTL counted from that *)
(* answer has elapsed, is answered cached: true with that answer's data    *)
(* and runs no database query.                                             *)
(***************************************************************************)
C3_CachedRepeat ==
  \A r \in Requests :
    r.promised # {} =>
      /\ r.pc = "done"
      /\ r.queries = 0
      /\ \A d \in r.promised : r.responses = <<Json200(d, TRUE)>>

(***************************************************************************)
(* C3 amended: a request that arrives while the cache holds an unexpired   *)
(* entry for its cache key is answered cached: true with the data of the   *)
(* last answer with cached: false for that key, and runs no database       *)
(* query.                                                                  *)
(***************************************************************************)
C3_CachedRepeatWhileHeld ==
  \A r \in Requests :
    r.held =>
      /\ r.pc = "done"
      /\ r.queries = 0
      /\ r.responses = <<Json200(r.latest, TRUE)>>

\* A repeat within the TTL of an earlier answer has been served from the cache.
C3_RepeatServedFromCache ==
  /\ srv_done.held
  /\ srv_done.promised = {srv_done.latest}
  /\ srv_done.responses = <<Json200(srv_done.latest, TRUE)>>
  /\ srv_done.queries = 0

(***************************************************************************)
(* C9 (not found): on the three scoped routes, a request whose group query *)
(* did not say GROUP SECURITY and whose USERGROUPS query returned no row   *)
(* is answered 404 with the error of its level, once, and has written no   *)
(* cache entry.                                                            *)
(***************************************************************************)
C9_NotFound ==
  \A r \in Requests :
    (r.group = "OTHER" /\ r.ids = "none") =>
      /\ r.pc = "done"
      /\ r.responses = <<JsonError(404, NotFoundError(r.ep))>>
      /\ ~r.wrote

\* A getBusiness request has been answered 404 after two queries.
C9_AnsweredNotFound ==
  /\ srv_done.ep = "getBusiness"
  /\ srv_done.group = "OTHER"
  /\ srv_done.ids = "none"
  /\ srv_done.queries = 2
  /\ srv_done.responses = <<JsonError(404, "No matching BUID found")>>

(***************************************************************************)
(* C10 (upstream failure): a request one of whose database queries threw   *)
(* is answered exactly once, 500 with 'Internal server error', the handler *)
(* ends there, and none of its steps changed the entries of the cache.     *)
(***************************************************************************)
C10_UpstreamFailure ==
  \A r \in Requests :
    r.threw =>
      /\ r.pc = "done"
      /\ r.responses = <<JsonError(500, "Internal server error")>>
      /\ ~r.wrote

\* The data query of a scoped route has thrown after its two lookups, with
\* entries of other requests in the cache.
C10_AnsweredFailure ==
  /\ srv_done.threw
  /\ srv_done.queries = 3
  /\ srv_done.responses = <<JsonError(500, "Internal server error")>>
  /\ cs_cache # <<>>

(***************************************************************************)
(* The statistics the cache under test reports.                            *)
(***************************************************************************)
getStats ==
  CASE impl = "CacheManager" -> CM_GetStats(cm_cache)
    [] impl = "FrontendCache" -> FC_GetStats(fc_cache, fc_hits, fc_misses)
    [] impl = "ClientCache" -> CC_GetStats(cc_mem, ls, ls_mode)

HasCounters == {"hits", "misses", "hitRate"} \subseteq DOMAIN getStats

(***************************************************************************)
(* C11 (hit/miss accounting): every get(key) increments exactly one of     *)
(* hits and misses: hits when the key is stored and unexpired and a value  *)
(* is returned, misses when the key is absent or expired; no other call    *)
(* than get and clear changes the counters and clear zeroes them, so that  *)
(* hits + misses is the number of get calls since the last clear; the      *)
(* statistics report hitRate = 100 * hits / (hits + misses), and 0 when    *)
(* hits + misses = 0.  (The instant now = expiry, which C1 is about, is    *)
(* left to either counter.)                                                *)
(***************************************************************************)
C11_HitMissAccounting ==
  /\ lastOp.op = "get" =>
       /\ HasCounters
       /\ \/ getStats.hits = lastOp.hits + 1 /\ getStats.misses = lastOp.misses
          \/ getStats.hits = lastOp.hits /\ getStats.misses = lastOp.misses + 1
       /\ (lastOp.had /\ lastOp.at < lastOp.expiry) => getStats.hits = lastOp.hits + 1
       /\ lastOp.result # NULL => getStats.hits = lastOp.hits + 1
       /\ (~lastOp.had \/ lastOp.at > lastOp.expiry) =>
            getStats.misses = lastOp.misses + 1
  /\ lastOp.op \in {"set", "has", "timer", "delete", "cleanup"} =>
       /\ HasCounters
       /\ getStats.hits = lastOp.hits
       /\ getStats.misses = lastOp.misses
  /\ lastOp.op = "clear" =>
       HasCounters /\ getStats.hits = 0 /\ getStats.misses = 0
  /\ HasCounters =>
       IF getStats.hits + getStats.misses = 0
         THEN getStats.hitRate.num = 0
         ELSE getStats.hitRate.num * (getStats.hits + getStats.misses)
                = 100 * getStats.hits * getStats.hitRate.den

\* FrontendCache after set(a, v); get(a); get(b): hits = 1, misses = 1, hitRate = 50.
C11_OneHitOneMiss ==
  /\ impl = "FrontendCache"
  /\ lastOp.op = "get" /\ ~lastOp.had
  /\ HasCounters
  /\ getStats.hits = 1 /\ getStats.misses = 1
  /\ getStats.hitRate.num = 50 * getStats.hitRate.den

\* Whether the get of the cache under test, called where the last call was,
\* takes the branch that returns the stored value.
GetReturnsStored ==
  /\ lastOp.had
  /\ CASE impl = "CacheManager" -> ~CM_Expired(lastOp.at, lastOp.expiry)
       [] impl = "FrontendCache" ->
            ~FC_Expired(lastOp.at, [timestamp |-> 0, ttl |-> lastOp.expiry])
       [] impl = "ClientCache" -> ~CC_Expired(lastOp.at, lastOp.expiry)

(***************************************************************************)
(* C12 (has): has(key) returns true exactly when a get(key) at the same    *)
(* instant would return a stored value, whatever that value is (null and   *)
(* other falsy values included), and it leaves hits and misses as they     *)
(* were.                                                                   *)
(***************************************************************************)
C12_HasAgreesWithGet ==
  lastOp.op = "has" =>
    /\ (lastOp.result = "true") <=> GetReturnsStored
    /\ HasCounters =>
         getStats.hits = lastOp.hits /\ getStats.misses = lastOp.misses

\* has(key) on a key that is stored with the value null and has not expired.
C12_HasOfStoredNull ==
  /\ lastOp.op = "has"
  /\ GetReturnsStored
  /\ CASE impl = "CacheManager" -> MapGet(cm_cache, lastOp.key) = NULL
       [] impl = "FrontendCache" -> MapGet(fc_cache, lastOp.key).data = NULL
       [] impl = "ClientCache" -> MapGet(cc_mem, generateKey(lastOp.key)) = NULL

\* Whether a get(key) of the cache under test, called now, finds a stored value.
Readable(key) ==
  CASE impl = "CacheManager" ->
         MapHas(cm_cache, key) /\ ~CM_Expired(now, MapGet(cm_ttl, key))
    [] impl = "FrontendCache" -> FC_Get(fc_cache, key, now).hit
    [] impl = "ClientCache" -> CC_Get(cc_mem, cc_ttl, ls, ls_mode, key, now).found

\* What the cache under test holds for a key: value and expiry, in each place.
Entry(key) ==
  CASE impl = "CacheManager" ->
         IF MapHas(cm_cache, key)
           THEN <<MapGet(cm_cache, key), MapGet(cm_ttl, key)>> ELSE <<>>
    [] impl = "FrontendCache" ->
         IF MapHas(fc_cache, key) THEN <<MapGet(fc_cache, key)>> ELSE <<>>
    [] impl = "ClientCache" ->
         <<IF MapHas(cc_mem, generateKey(key))
             THEN <<MapGet(cc_mem, generateKey(key)), MapGet(cc_ttl, generateKey(key))>>
             ELSE <<>>,
           IF LSHas(key) THEN <<MapGet(ls, generateKey(key))>> ELSE <<>>>>

\* The number of keys the cache under test holds an entry for.
CacheSize == Cardinality({key \in Keys : Entry(key) # Entry("none")})

ClearStep == CMClear \/ FCClear \/ CCClear

DeleteStep(key) == CMDelete(key) \/ CCDelete(key)

SetStep(key) ==
  \E value \in CacheValues, ttlArg \in TTLs :
    CMSet(key, value, ttlArg) \/ FCSet(key, value, ttlArg) \/ CCSet(key, value, ttlArg)

\* clear() and delete(key) remove; only set(key) brings a key back.
RemovalStep ==
  /\ ClearStep => CacheSize' = 0 /\ \A key \in Keys : ~Readable(key)'
  /\ \A key \in Keys :
       DeleteStep(key) =>
         /\ ~Readable(key)'
         /\ \A other \in Keys \ {key} : Entry(other)' = Entry(other)
  /\ \A key \in Keys : (~Readable(key) /\ Readable(key)') => SetStep(key)

(***************************************************************************)
(* C13 (explicit removal): after clear() the cache has size 0, hits = 0    *)
(* and misses = 0, and after delete(key) every other key's entry is as it  *)
(* was; a key removed by either is absent for get until a set of that key. *)
(***************************************************************************)
C13_ExplicitRemoval ==
  [][/\ RemovalStep
     /\ ClearStep =>
          HasCounters' /\ getStats'.hits = 0 /\ getStats'.misses = 0]_vars

\* The part of C13 that is about the entries alone.
C13_EntriesRemoved == [][RemovalStep]_vars

\* The keys the cache under test holds an entry for, and an entry's expiry.
Held == {key \in Keys : Entry(key) # Entry("none")}

ExpiryOfEntry(key) ==
  CASE impl = "CacheManager" -> CMExpiryOf(key)
    [] impl = "FrontendCache" -> FCExpiryOf(key)
    [] impl = "ClientCache" -> CCExpiryOf(key)

CleanupStep == CMCleanup \/ CCCleanup

(***************************************************************************)
(* C14 (background sweep): right after a run of cleanup() at time now the  *)
(* cache holds no entry whose expiry is before now, and every entry whose  *)
(* expiry is not before now is held as it was, read or not.  (An entry     *)
(* whose expiry is now itself is counted as not yet passed.)               *)
(***************************************************************************)
C14_Sweep ==
  [][CleanupStep =>
       \A key \in Held :
         IF now > ExpiryOfEntry(key)
           THEN key \notin Held'
           ELSE Entry(key)' = Entry(key)]_vars

\* A sweep that removed one entry and kept another.
C14_SweptSome ==
  /\ lastOp.op = "cleanup"
  /\ lastOp.removed # {}
  /\ Held # {}

\* The step is the timer callback of the latest call of one debounced function,
\* run when FilterWait has passed since that call.
LatestTimerStep ==
  \E d \in AllDebouncers : \E tm \in hk_deb[d].timers :
    /\ HookLater(d, tm)
    /\ tm.id = hk_deb[d].timeout
    /\ now >= tm.due

(***************************************************************************)
(* C15 (all filter changes are debounced): for each of the six filter keys *)
(* a call updateFilter(key, value) itself changes no filter state; the     *)
(* filter state changes only when the wait has passed after the latest     *)
(* call with no further call, in the timer callback of that latest call.   *)
(***************************************************************************)
C15_AllDebounced ==
  [][/\ \A key \in FilterKeys : \A value \in Options(key) :
          HookUpdateFilter(key, value) => filters' = filters
     /\ filters' # filters => LatestTimerStep]_vars

(***************************************************************************)
(* C16 (refresh clears both cache layers): no request sent by a manual     *)
(* refresh is answered from an entry that cacheService held when the       *)
(* refresh ran; every answer to such a request carries cached: false.      *)
(***************************************************************************)
C16_RefreshBypassesCaches ==
  \A r \in Requests :
    /\ ~r.fromOld
    /\ r.refresh => \A i \in 1..Len(r.responses) : ~r.responses[i].cached

\* The levels a refresh has to fetch: vertical and years, and business, site
\* and months when their parent filter is set.
RelevantLevels(f) ==
  {[type |-> "getVertical", arg |-> ""], [type |-> "getYears", arg |-> ""]}
    \cup (IF f.vertical # "" THEN {[type |-> "getBusiness", arg |-> f.vertical]} ELSE {})
    \cup (IF f.business # "" THEN {[type |-> "getSite", arg |-> f.business]} ELSE {})
    \cup (IF f.year # "" THEN {[type |-> "getMonths", arg |-> f.year]} ELSE {})

\* refreshAllData of the page.
RefreshStep == hook = "IndexChairmanDaily" /\ HookRefresh

(***************************************************************************)
(* C17 (refresh with partial failure), the fetches: the refresh action     *)
(* issues one fetch for every currently relevant level.                    *)
(***************************************************************************)
C17_RefreshFetchesEveryLevel ==
  [][RefreshStep =>
       \A c \in RelevantLevels(filters) :
         inflight'[c.type] = Append(inflight[c.type], c.arg)]_vars

\* C17, the failures: a fetch that fails leaves every other fetch awaiting its
\* answer and every other level's data as they were, a fetch that succeeds
\* puts its result in the state, and either ends with its loading flag false.
C17_FailureIsolated ==
  [][\A type \in FetchTypes : \A i \in 1..MaxInFlight : \A ok \in BOOLEAN :
       HookFetchDone(type, i, ok) =>
         /\ \A other \in FetchTypes \ {type} :
              inflight'[other] = inflight[other] /\ data'[other] = data[other]
         /\ ok => data'[type] = Response([type |-> type, arg |-> inflight[type][i]])
         /\ type \notin loading']_vars

\* The page where every fetch is answered or fails in the end.
SpecPageFair ==
  SpecPage /\ WF_vars(\E type \in FetchTypes, i \in 1..MaxInFlight, ok \in BOOLEAN :
                        HookFetchDone(type, i, ok))

\* C17, the loading flags: every level's loading flag is false in the end.
C17_LoadingEnds == (loading # {}) ~> (loading = {})

\* The fetch of the options of the level below a filter: the query of part_001,
\* the API call of part_002.
ChildFetches(key) ==
  IF key = "vertical" THEN {"business", "getBusiness"} ELSE {"site", "getSite"}

(***************************************************************************)
(* C18 (sentinel on the client): when the value "All" is applied to        *)
(* vertical (or business) it becomes the filter value, and a fetch of the  *)
(* options of business (of site) is issued with it.                        *)
(***************************************************************************)
C18_SentinelFetches ==
  \A key \in {"vertical", "business"} :
    (applied.key = key /\ applied.value = "All") =>
      /\ applied.after[key] = "All"
      /\ \E c \in applied.fetches : c.type \in ChildFetches(key) /\ c.arg = "All"

\* What the caller may see: everything under group security, else what the
\* USERGROUPS rows of the user name.
ScopeOf(db, ep) ==
  IF Q_Group(db, "1") = "GROUP SECURITY"
    THEN (IF ep = "getBusiness" THEN AllBUIDs(db) ELSE AllSIIDs(db))
    ELSE Q_UserIds(db, "7", IF ep = "getBusiness" THEN "BUID" ELSE "SIID")

ActiveInScope(db, ep) ==
  IF ep = "getBusiness"
    THEN {b.BUNAME : b \in {x \in db.BUSINESS :
                              x.BUSTATUS = "ACTIVE" /\ x.BUID \in ScopeOf(db, ep)}}
    ELSE {x.SINAME : x \in {y \in db.SITE :
                              y.SISTATUS = "ACTIVE" /\ y.SIID \in ScopeOf(db, ep)}}

(***************************************************************************)
(* C19 (sentinel on the server): a getBusiness request with vertical =     *)
(* "All" that is answered with rows returns every active business in the   *)
(* caller's scope, and a getSite request with Business = "All" every       *)
(* active site in it.                                                      *)
(***************************************************************************)
C19_AllMatchesEverything ==
  (sq.arg = "All" /\ sq.status = 200) => sq.rows = ActiveInScope(sq.db, sq.ep)

\* The child levels: the filter above each and the API call that fetches its
\* options; the dropdown of a level reads data[level] and loading[level].
ChildLevels == {"business", "site", "months"}

ParentOf(level) ==
  CASE level = "business" -> "vertical"
    [] level = "site" -> "business"
    [] level = "months" -> "year"

FetchOf(level) ==
  CASE level = "business" -> "getBusiness"
    [] level = "site" -> "getSite"
    [] level = "months" -> "getMonths"

\* The last change applied set the parent of that level to a non-empty value,
\* the fetch it triggered was the last of its type and has ended so, and no
\* other fetch of the type awaits its answer.
ChildFetchEnded(level, status) ==
  /\ applied.key = ParentOf(level)
  /\ applied.value # ""
  /\ filters[ParentOf(level)] = applied.value
  /\ issued[FetchOf(level)].arg = applied.value
  /\ issued[FetchOf(level)].status = status
  /\ inflight[FetchOf(level)] = <<>>

(***************************************************************************)
(* C20 (level state machine): once a parent filter has been set to a       *)
(* non-empty value and the fetch of the child level it triggered has       *)
(* succeeded, the slice the child's dropdown reads holds the fetched list  *)
(* and the level is not loading; once that fetch has failed the level is   *)
(* not loading either.                                                     *)
(***************************************************************************)
C20_ChildReady ==
  \A level \in ChildLevels :
    /\ ChildFetchEnded(level, "ok") =>
         /\ data[level] = Response([type |-> FetchOf(level), arg |-> applied.value])
         /\ {level, FetchOf(level)} \cap loading = {}
    /\ ChildFetchEnded(level, "failed") =>
         {level, FetchOf(level)} \cap loading = {}

(***************************************************************************)
(* C21 (storage unavailable): while every localStorage operation throws,   *)
(* the constructor and set, get, has, delete, clear and cleanup raise no   *)
(* exception, and a get(key) that follows set(key, v) no later than the    *)
(* expiry of that set returns v, read from the memory cache.               *)
(***************************************************************************)
C21_StorageUnavailable ==
  /\ (ls_mode = "denied" => ~lastOp.threw)
  /\ [][/\ ls_mode = "denied" => ~lastOp'.threw
        /\ \A key \in CCKeys :
             (/\ ls_mode = "denied"
              /\ lastOp.op = "set" /\ lastOp.key = key
              /\ now <= lastOp.expiry
              /\ CCGet(key))
               => /\ lastOp'.result = lastOp.value
                  /\ MapHas(cc_mem, generateKey(key))
                  /\ ls' = ls]_vars

\* A get answered from memory, after time has passed, with localStorage denied.
C21_ServedFromMemory ==
  /\ ls_mode = "denied"
  /\ impl = "ClientCache"
  /\ lastOp.op = "get"
  /\ lastOp.result = "v1"
  /\ lastOp.at > 0
  /\ ls # <<>>

\* The data the server has computed for the inputs of a request.
ComputedFor(r) == {a.data : a \in {x \in srv_answers : x.ep = r.ep /\ x.body = r.body}}

(***************************************************************************)
(* C22 (cache key separation): two requests to one endpoint whose bodies   *)
(* differ have different cache keys, and a response with cached: true      *)
(* carries data that was computed for the inputs of its own request.       *)
(***************************************************************************)
C22_KeySeparation ==
  /\ \A r1, r2 \in Requests :
       (r1.ep = r2.ep /\ r1.body # r2.body) => r1.key # r2.key
  /\ \A r \in Requests : \A i \in 1..Len(r.responses) :
       r.responses[i].cached => r.responses[i].data \in ComputedFor(r)

\* FrontendCache holds for the key an entry whose timestamp + ttl lies ahead.
FCLive(key) ==
  /\ impl = "FrontendCache"
  /\ MapHas(fc_cache, key)
  /\ now < FCExpiryOf(key)

(***************************************************************************)
(* C23 (FrontendCache, entry lifetime): an entry written by set(key, v,    *)
(* ttl) at time t is kept by every step taken before t + ttl other than    *)
(* clear() and a new set of the key, a removal timer running included, and *)
(* get(key) returns v before t + ttl.                                      *)
(***************************************************************************)
C23_EntryOutlivesTimers ==
  [][\A key \in FCKeys :
       (FCLive(key) /\ ~FCClear /\ ~SetStep(key)) =>
          /\ MapHas(fc_cache', key)
          /\ MapGet(fc_cache', key) = MapGet(fc_cache, key)
          /\ FCGet(key) => lastOp'.result = MapGet(fc_cache, key).data]_vars

(***************************************************************************)
(* C24 (no duplicate upstream work): of the requests in progress that      *)
(* found no entry cached for one and the same cache key, at most one has   *)
(* sent a query to the database.                                           *)
(***************************************************************************)
C24_NoDuplicateWork ==
  \A i, j \in 1..Len(reqs) :
    (i # j /\ reqs[i].key = reqs[j].key /\ ~reqs[i].held /\ ~reqs[j].held) =>
      (reqs[i].queries = 0 \/ reqs[j].queries = 0)

(***************************************************************************)
(* C25 (getConnection): every request getConnection() has returned was     *)
(* made from a pool whose connect() had completed successfully and that    *)
(* was not being closed.                                                   *)
(***************************************************************************)
C25_RequestFromConnectedPool == ds.got \subseteq {"connected"}

\* The filter changes waiting in a debounce window: the timers not yet run.
PendingChanges == UNION {hk_deb[d].timers : d \in AllDebouncers}

\* The filters a change of the key resets (the cascade of either component).
ResetBy(key) ==
  CASE key = "vertical" -> {"business", "site"}
    [] key = "business" -> {"site"}
    [] key = "year"     -> {"month", "date"}
    [] OTHER            -> {}

(***************************************************************************)
(* C26 (independent debounce windows): a call updateFilter(k2, v2) cancels *)
(* no pending change of another filter k1 that k2's cascade does not       *)
(* reset: the timer that carries (k1, v1) is still set after the call, so  *)
(* v1 will be applied.                                                     *)
(***************************************************************************)
C26_OtherFilterNotCancelled ==
  [][\A k2 \in FilterKeys : \A v2 \in Options(k2) :
       HookUpdateFilter(k2, v2) =>
         \A tm \in PendingChanges :
           tm.args[1] \notin {k2} \cup ResetBy(k2) => tm \in PendingChanges']_vars

(***************************************************************************)
(* C27 (no stale child value): when a pending change of a filter is        *)
(* applied, no selection of a filter below it that was made before that    *)
(* moment is left waiting to be applied on top of the new parent value.    *)
(***************************************************************************)
C27_NoStaleChild ==
  [][\A d \in AllDebouncers : \A tm \in hk_deb[d].timers :
       HookLater(d, tm) =>
         \A p \in PendingChanges' : p.args[1] \notin ResetBy(tm.args[1])]_vars

(***************************************************************************)
(* C28 (loading flag tracks in-flight fetches): the loading flag of a      *)
(* fetch type is true exactly while at least one fetch of that type has    *)
(* been started and has not completed.                                     *)
(***************************************************************************)
C28_LoadingTracksInFlight ==
  \A type \in FetchTypes : (type \in loading) <=> (inflight[type] # <<>>)

(***************************************************************************)
(* C29 (overwrite at capacity): a CacheManager.set of a key the cache      *)
(* already holds removes no key and leaves the number of entries as it     *)
(* was, whether or not the cache is full.                                  *)
(***************************************************************************)
C29_OverwriteKeepsOthers ==
  (impl = "CacheManager" /\ lastOp.op = "set" /\ lastOp.had) =>
    /\ lastOp.removed = {}
    /\ Len(cm_cache) = lastOp.sizeBefore

\* What the claim says of a call of retryRequest, as far as it has run.
RetryAsClaimed ==
  /\ rt.calls <= rt.maxRetries + 1
  /\ Len(rt.outcomes) <= rt.calls
  /\ \A j \in 1..Len(rt.outcomes) :
       rt.outcomes[j].ok =>
         /\ j = Len(rt.outcomes)
         /\ rt.calls = j
         /\ rt.pc = "resolved"
         /\ rt.result = rt.outcomes[j].v
  /\ \A j \in 1..Len(rt.waits) : rt.waits[j] = rt.delay * (2 ^ (j - 1))
  /\ rt.calls = Len(rt.waits) + (IF rt.pc = "timer" THEN 0 ELSE 1)
  /\ (/\ Len(rt.outcomes) = rt.maxRetries + 1
      /\ \A j \in 1..Len(rt.outcomes) : ~rt.outcomes[j].ok)
       => /\ rt.pc = "rejected"
          /\ rt.result = rt.outcomes[Len(rt.outcomes)].v
  /\ rt.pc = "rejected" => Len(rt.outcomes) = rt.maxRetries + 1

(***************************************************************************)
(* C30 (retryRequest): the call makes at most maxRetries + 1 attempts,     *)
(* none after the first success, whose value it returns; it waits          *)
(* delay * 2^i before attempt i + 1; after maxRetries + 1 failures it      *)
(* rejects with the error of the last attempt; and as requestFn settles    *)
(* each time, the call ends.                                               *)
(***************************************************************************)
C30_RetryTerminates ==
  /\ [](rt.pc # "idle" => RetryAsClaimed)
  /\ <>(rt.pc \in {"idle", "resolved", "rejected"})

\* Three attempts have failed, with waits of delay and 2 * delay between them,
\* and the call has rejected with the last error.
C30_GaveUpAfterBackoff ==
  /\ rt.pc = "rejected"
  /\ rt.maxRetries = 2
  /\ rt.calls = 3
  /\ rt.waits = <<3, 6>>
  /\ rt.outcomes = <<[ok |-> FALSE, v |-> "e1"], [ok |-> FALSE, v |-> "e1"],
                     [ok |-> FALSE, v |-> "e2"]>>
  /\ rt.result = "e2"

====
